---- MODULE Spec2Model ----
(***************************************************************************)
(* Coordination layer of the sandboxed Python REPL:                        *)
(*   - PyodideManager (src/src/pyodide-manager.ts): one runtime handle     *)
(*     guarded by the executionLock spin-wait;                             *)
(*   - worker.ts (src/unnamed/part_001): one PyodideManager per worker,    *)
(*     driven by init / execute messages;                                  *)
(*   - WorkerPool (src/unnamed/part_000): routing, correlation by request  *)
(*     id, timeouts and teardown;                                          *)
(*   - server.ts (src/src/server.ts): validation of POST /python bodies,   *)
(*     the resetGlobals rule and the HTTP status of the response.          *)
(* The Pyodide runtime is an external collaborator; it is modelled by the  *)
(* small interpreter RunCode over the programs in Codes.                   *)
(***************************************************************************)
EXTENDS Integers, Sequences, FiniteSets, TLC

\* ------------------------------------------------------------------ bounds
\* Number of execute calls made on the single PyodideManager (SpecMgr).
MaxCalls == 3
\* workerCount of the pool (SpecPool).
NumUnits == 2
\* Number of WorkerPool.execute calls (SpecPool).
MaxRequests == 2
\* Number of execute messages posted to the lone worker (SpecUnit).
MaxUnitMessages == 3
\* Number of POST /python requests made to the server (SpecServer).
MaxHttp == 2
\* The wall clock advances at most this many ticks.
MaxTime == 3

\* ------------------------------------------------------- runtime (Pyodide)
\* Python values: ints, None, and the module object bound by "import sys".
PyInt(n) == [type |-> "int", val |-> n]
PyNone == [type |-> "none", val |-> 0]
SysModule == [type |-> "module", val |-> 0]
\* An object whose __str__ raises: toString() of its proxy throws.
PyObject == [type |-> "object", val |-> 0]

\* A namespace maps the names bound in it to values; unbound names are not
\* in its domain.  toPy({}) creates the empty one.
EmptyEnv == [n \in {} |-> PyNone]
Bind(env, name, v) ==
    [n \in (DOMAIN env) \cup {name} |-> IF n = name THEN v ELSE env[n]]

\* The programs submitted in the tests: "x = 41", "x = 42", "x",
\* "raise ValueError('test error')" and "exit()"; and an expression whose
\* value cannot be converted to a string.
Assign(n) == [op |-> "assign", arg |-> n]
Read == [op |-> "read", arg |-> 0]
Raise == [op |-> "raise", arg |-> 0]
Exit == [op |-> "exit", arg |-> 0]
BadStr == [op |-> "badstr", arg |-> 0]
Codes == {Assign(41), Assign(42), Read, Raise, Exit, BadStr}

\* runPythonAsync(code, {globals: env}): the exception raised ("" if none),
\* the value of the last expression and the namespace afterwards.
RunCode(code, env) ==
    CASE code.op = "assign" ->
           [raised |-> "", value |-> PyNone,
            env |-> Bind(env, "x", PyInt(code.arg))]
      [] code.op = "read" ->
           IF "x" \in DOMAIN env
           THEN [raised |-> "", value |-> env["x"], env |-> env]
           ELSE [raised |-> "NameError", value |-> PyNone, env |-> env]
      [] code.op = "raise" ->
           [raised |-> "ValueError", value |-> PyNone, env |-> env]
      [] code.op = "badstr" ->
           [raised |-> "", value |-> PyObject, env |-> env]
      [] OTHER ->
           [raised |-> "SystemExit", value |-> PyNone, env |-> env]

\* Strings are sequences of tokens, so that "contains" can be stated.
Contains(s, tok) == \E i \in 1..Len(s) : s[i] = tok

DigitChar(d) ==
    CASE d = 0 -> "0" [] d = 1 -> "1" [] d = 2 -> "2" [] d = 3 -> "3"
      [] d = 4 -> "4" [] d = 5 -> "5" [] d = 6 -> "6" [] d = 7 -> "7"
      [] d = 8 -> "8" [] OTHER -> "9"

\* result.toString() of a non-negative number: its decimal digits.
RECURSIVE IntToString(_)
IntToString(n) ==
    IF n < 10 THEN <<DigitChar(n)>>
    ELSE IntToString(n \div 10) \o <<DigitChar(n % 10)>>

\* repr(sys.last_exc) for the exceptions the programs raise.
Repr(exc) ==
    CASE exc = "NameError" ->
           <<"NameError", "(", "name 'x' is not defined", ")">>
      [] exc = "ValueError" -> <<"ValueError", "(", "test error", ")">>
      [] OTHER -> <<exc, "(", "None", ")">>

\* A JS "string | null".
JsNull == [isNull |-> TRUE, str |-> <<>>]
JsStr(s) == [isNull |-> FALSE, str |-> s]

\* ------------------------------------------------------------------ state
VARIABLES
    pyodide,         \* PyodideManager.pyodide: is the runtime handle set
    executionLock,   \* PyodideManager.executionLock
    executionCount,  \* PyodideManager.executionCount
    globals,         \* the runtime's persistent default namespace
    sys_last_exc,    \* the runtime's sys.last_exc ("" when unset)
    calls,           \* the invocations of PyodideManager.execute
    numCalls,        \* how many invocations have been made
    history,         \* the envelopes returned, in order of return
    \* worker.ts, one per unit
    pyodideManager,  \* the worker's pyodideManager: "null" or "created"
    workerId,        \* the worker's workerId variable
    initPc,          \* where the worker's handleInit stands
    alive,           \* "alive", "crashed" (fatal fault) or "terminated"
    inbox,           \* messages posted to the worker, not yet handled
    toMain,          \* messages posted by the worker, not yet handled
    \* WorkerPool
    poolPhase,       \* "constructed", "initialized" or "terminated"
    workers,         \* WorkerPool.workers
    pendingRequests, \* WorkerPool.pendingRequests
    timers,          \* the armed setTimeout handles
    nextRequestId,   \* WorkerPool.nextRequestId
    poolExecutionCount, \* WorkerPool.executionCount
    futures,         \* the promises returned by WorkerPool.execute
    createPromise,   \* the promise returned by createWorker(i)
    readyListener,   \* is createWorker(i)'s readyListener still attached
    \* server.ts
    serverConfig,    \* the ServerConfig given to startServer
    http,            \* the POST /python requests handled, in order
    now,             \* the wall clock read by Date.now(), in ticks
    poolTimeout      \* WorkerPool.config.pyodideConfig.timeout

mgrVars == <<pyodide, executionLock, executionCount, globals, sys_last_exc,
             calls, history>>
unitVars == <<pyodideManager, workerId, initPc, alive, inbox, toMain>>
poolVars == <<poolPhase, workers, pendingRequests, timers, nextRequestId,
              poolExecutionCount, futures, createPromise, readyListener>>
vars == <<pyodide, executionLock, executionCount, globals, sys_last_exc,
          calls, numCalls, history,
          pyodideManager, workerId, initPc, alive, inbox, toMain,
          poolPhase, workers, pendingRequests, timers, nextRequestId,
          poolExecutionCount, futures, createPromise, readyListener,
          serverConfig, http, now, poolTimeout>>
\* The server's state, the clock and the configuration: what no step of the
\* manager, of a worker or of the pool changes.
serverVars == <<serverConfig, http, now, poolTimeout>>

\* Identities of the invocations.
CallIds == DOMAIN calls
\* The worker ids of a pool of n units, and the units of this deployment.
Units(n) == 0..(n - 1)
UnitIds == DOMAIN alive

\* The local variable context of execute: was a namespace created, does the
\* variable still refer to it, and how often was it destroyed.
NoContext == [created |-> FALSE, set |-> FALSE, destroys |-> 0]

\* An invocation that has not been made yet.
NoCall ==
    [pc |-> "idle", unit |-> 0, code |-> Read, resetGlobals |-> FALSE,
     context |-> NoContext, status |-> "success", result |-> JsNull,
     raised |-> "", error |-> "", id |-> <<>>,
     calledAt |-> 0, lockedAt |-> 0, startTime |-> 0,
     execution_time_ms |-> 0]

\* ------------------------------------------------- PyodideManager.execute
LockHeld_NoCheck(u) == FALSE

\* The loop condition of the spin-wait.
LockHeld(u) == executionLock[u]

RunEnv_AlwaysGlobals(u, reset) == globals[u]

RunEnv_Shared(u, reset) == IF reset THEN EmptyEnv ELSE globals[0]

\* The namespace handed to runPythonAsync.
RunEnv(u, reset) == IF reset THEN EmptyEnv ELSE globals[u]

\* context = toPy({}) when resetGlobals is set.
CreateContext(reset) ==
    IF reset THEN [created |-> TRUE, set |-> TRUE, destroys |-> 0]
    ELSE NoContext

HandleAbsent_Ignored(u) == FALSE

\* if (!this.pyodide)
HandleAbsent(u) == ~pyodide[u]

\* Does toPy({}) throw: it is called only when resetGlobals is set, and the
\* runtime may fail to create the namespace.
ToPyOutcomes(reset) == IF reset THEN {FALSE, TRUE} ELSE {FALSE}

\* When invocation c called execute: on entry if it is entering now, at the
\* start of its wait otherwise (a record of the run, not program state).
CalledAt(c) == IF calls[c].pc = "waiting" THEN calls[c].calledAt ELSE now

StartTime_BeforeWait(c) == CalledAt(c)

\* const startTime = Date.now(), after the lock is taken.
StartTime(c) == now

MgrStart_LeavesLocked(c, u, code, reset, id) ==
    IF HandleAbsent(u)
    THEN /\ calls' = [calls EXCEPT ![c] =
                [NoCall EXCEPT !.pc = "thrown", !.unit = u, !.code = code,
                               !.resetGlobals = reset, !.id = id,
                               !.error = "Pyodide not initialized"]]
         /\ executionLock' = [executionLock EXCEPT ![u] = TRUE]
    ELSE \E fails \in ToPyOutcomes(reset) :
         IF fails
         THEN /\ calls' = [calls EXCEPT ![c] =
                     [NoCall EXCEPT !.pc = "thrown", !.unit = u,
                                    !.code = code, !.resetGlobals = reset,
                                    !.id = id, !.error = "ConversionError"]]
              /\ executionLock' = [executionLock EXCEPT ![u] = TRUE]
         ELSE /\ calls' = [calls EXCEPT ![c] =
                     [NoCall EXCEPT !.pc = "running", !.unit = u,
                                    !.code = code, !.resetGlobals = reset,
                                    !.id = id,
                                    !.context = CreateContext(reset)]]
              /\ executionLock' = [executionLock EXCEPT ![u] = TRUE]

\* From the acquisition of the lock to the await of runPythonAsync, or to
\* the throw that skips the inner try block; the outer finally block then
\* finds no context and clears the lock.
MgrStart(c, u, code, reset, id) ==
    IF HandleAbsent(u)
    THEN /\ calls' = [calls EXCEPT ![c] =
                [NoCall EXCEPT !.pc = "thrown", !.unit = u, !.code = code,
                               !.resetGlobals = reset, !.id = id,
                               !.error = "Pyodide not initialized"]]
         /\ executionLock' = [executionLock EXCEPT ![u] = FALSE]
    ELSE \E fails \in ToPyOutcomes(reset) :
         IF fails
         THEN /\ calls' = [calls EXCEPT ![c] =
                     [NoCall EXCEPT !.pc = "thrown", !.unit = u,
                                    !.code = code, !.resetGlobals = reset,
                                    !.id = id, !.error = "ConversionError"]]
              /\ executionLock' = [executionLock EXCEPT ![u] = FALSE]
         ELSE /\ calls' = [calls EXCEPT ![c] =
                     [NoCall EXCEPT !.pc = "running", !.unit = u,
                                    !.code = code, !.resetGlobals = reset,
                                    !.id = id,
                                    !.context = CreateContext(reset),
                                    !.calledAt = CalledAt(c),
                                    !.lockedAt = now,
                                    !.startTime = StartTime(c)]]
              /\ executionLock' = [executionLock EXCEPT ![u] = TRUE]

MgrExecute_Queued(c, u, code, reset, id) ==
    /\ calls[c].pc = "idle"
    /\ IF LockHeld(u) \/
          \E w \in CallIds : calls[w].pc = "waiting" /\ calls[w].unit = u
       THEN /\ calls' = [calls EXCEPT ![c] =
                   [NoCall EXCEPT !.pc = "waiting", !.unit = u, !.id = id,
                                  !.code = code, !.resetGlobals = reset]]
            /\ UNCHANGED executionLock
       ELSE MgrStart(c, u, code, reset, id)
    /\ UNCHANGED <<pyodide, executionCount, globals, sys_last_exc, history>>

\* execute(code, resetGlobals) is called: either the lock is free and the
\* invocation proceeds, or it starts polling.
MgrExecute(c, u, code, reset, id) ==
    /\ calls[c].pc = "idle"
    /\ IF LockHeld(u)
       THEN /\ calls' = [calls EXCEPT ![c] =
                   [NoCall EXCEPT !.pc = "waiting", !.unit = u, !.id = id,
                                  !.code = code, !.resetGlobals = reset,
                                  !.calledAt = now]]
            /\ UNCHANGED executionLock
       ELSE MgrStart(c, u, code, reset, id)
    /\ UNCHANGED <<pyodide, executionCount, globals, sys_last_exc, history>>

\* A 10 ms poll of a waiting invocation that finds the lock free.
MgrPoll(c) ==
    /\ calls[c].pc = "waiting"
    /\ ~LockHeld(calls[c].unit)
    /\ MgrStart(c, calls[c].unit, calls[c].code, calls[c].resetGlobals,
                calls[c].id)
    /\ UNCHANGED <<pyodide, executionCount, globals, sys_last_exc, history>>

ExecStatus_AlwaysSuccess(failed) == "success"

\* The status of the envelope: "success" unless the catch block ran.
ExecStatus(failed) == IF failed THEN "exception" ELSE "success"

\* resultStr: the catch block replaces the result by repr(sys.last_exc); an
\* undefined result (Python None) stays null, anything else is toString()ed.
ResultStr(failed, value, lastExc) ==
    IF failed THEN JsStr(Repr(lastExc))
    ELSE IF value.type = "none" THEN JsNull
    ELSE JsStr(IntToString(value.val))

\* The persistent namespace after the invocation: the program's bindings
\* when it ran in it, and the name sys bound by the last-error query, which
\* always runs in the persistent namespace.
GlobalsAfter(u, reset, r) ==
    LET afterRun == IF reset THEN globals[u] ELSE r.env
    IN IF r.raised # "" THEN Bind(afterRun, "sys", SysModule) ELSE afterRun

\* result.toString() throws when the proxied object cannot be converted;
\* after the catch block the result is a JS string, which always converts.
ToStringThrows(failed, value) == ~failed /\ value.type = "object"

ExecutionCountAfter_SuccessOnly(u, failed) ==
    IF failed THEN executionCount[u] ELSE executionCount[u] + 1

\* this.executionCount++ at the head of the inner finally block.
ExecutionCountAfter(u, failed) == executionCount[u] + 1

ReleaseInner_KeepsRef(ctx) ==
    IF ctx.set THEN [ctx EXCEPT !.destroys = @ + 1] ELSE ctx

\* The inner finally block: if (context) { context.destroy(); context = null }
ReleaseInner(ctx) ==
    IF ctx.set THEN [ctx EXCEPT !.destroys = @ + 1, !.set = FALSE] ELSE ctx

\* The outer finally block: if (context) { context.destroy() }
ReleaseOuter(ctx) ==
    IF ctx.set THEN [ctx EXCEPT !.destroys = @ + 1] ELSE ctx

\* execution_time_ms: Date.now() - startTime
ExecutionTime(call) == now - call.startTime

\* runPythonAsync settles: the catch and both finally blocks, to the return
\* of the envelope, or to the throw when the result cannot be converted
\* (the rest of the inner finally block is then skipped).
MgrRunComplete(c) ==
    /\ calls[c].pc = "running"
    /\ LET u == calls[c].unit
           reset == calls[c].resetGlobals
           r == RunCode(calls[c].code, RunEnv(u, reset))
           failed == r.raised # ""
           thrown == ToStringThrows(failed, r.value)
           lastExc == IF failed THEN r.raised
                      ELSE IF thrown THEN "ZeroDivisionError"
                      ELSE sys_last_exc[u]
           status == ExecStatus(failed)
           resultStr == ResultStr(failed, r.value, lastExc)
           ctx == calls[c].context
       IN /\ sys_last_exc' = [sys_last_exc EXCEPT ![u] = lastExc]
          /\ globals' = [globals EXCEPT ![u] = GlobalsAfter(u, reset, r)]
          /\ executionCount' =
                 [executionCount EXCEPT ![u] = ExecutionCountAfter(u, failed)]
          /\ executionLock' = [executionLock EXCEPT ![u] = FALSE]
          /\ IF thrown
             THEN /\ calls' = [calls EXCEPT ![c] =
                         [@ EXCEPT !.pc = "thrown", !.error = "PythonError",
                                   !.context = ReleaseOuter(ctx)]]
                  /\ UNCHANGED history
             ELSE /\ calls' = [calls EXCEPT ![c] =
                         [@ EXCEPT !.pc = "returned", !.status = status,
                                   !.result = resultStr, !.raised = r.raised,
                                   !.execution_time_ms =
                                       ExecutionTime(calls[c]),
                                   !.context = ReleaseOuter(ReleaseInner(ctx))]]
                  /\ history' = Append(history,
                         [call |-> c, code |-> calls[c].code,
                          resetGlobals |-> reset, raised |-> r.raised,
                          status |-> status, result |-> resultStr])
    /\ UNCHANGED pyodide

\* PyodideManager.initialize: the runtime handle is set.
MgrInitialize(u) ==
    /\ ~pyodide[u]
    /\ pyodide' = [pyodide EXCEPT ![u] = TRUE]
    /\ UNCHANGED <<executionLock, executionCount, globals, sys_last_exc,
                   calls, history>>

\* -------------------------------------------------------------- messages
NoId == <<>>
NoEnvelope == [status |-> "", result |-> JsNull]

\* `req-${n}`
RequestId(n) == <<"req-">> \o IntToString(n)

Msg(type) ==
    [type |-> type, workerId |-> -1, id |-> NoId, call |-> -1, code |-> Read,
     resetGlobals |-> FALSE, result |-> NoEnvelope, error |-> ""]

InitMsg(w) == [Msg("init") EXCEPT !.workerId = w]
ExecuteMsg_NoReset(id, code, reset, call) ==
    [Msg("execute") EXCEPT !.id = id, !.code = code, !.call = call]

\* call identifies the handleExecute activation the message starts; no
\* handler reads it.
ExecuteMsg(id, code, reset, call) ==
    [Msg("execute") EXCEPT !.id = id, !.code = code, !.resetGlobals = reset,
                           !.call = call]
ReadyMsg(w) == [Msg("ready") EXCEPT !.workerId = w]
ResultMsg_NoId(id, call, envelope) ==
    [Msg("result") EXCEPT !.call = call, !.result = envelope]

ResultMsg(id, call, envelope) ==
    [Msg("result") EXCEPT !.id = id, !.call = call, !.result = envelope]
ErrorMsg_NoId(id, call, text) ==
    [Msg("error") EXCEPT !.call = call, !.error = text]

ErrorMsg(id, call, text) ==
    [Msg("error") EXCEPT !.id = id, !.call = call, !.error = text]

Envelope(call) == [status |-> call.status, result |-> call.result]

\* self.postMessage(m) in worker u.
Post(u, m) == toMain' = [toMain EXCEPT ![u] = Append(@, m)]

\* --------------------------------------------------------------- worker.ts
\* The message listener takes an init message: handleInit up to the await
\* of pyodideManager.initialize().
UnitHandleInit(u) ==
    /\ alive[u] = "alive"
    /\ inbox[u] # <<>>
    /\ Head(inbox[u]).type = "init"
    /\ inbox' = [inbox EXCEPT ![u] = Tail(@)]
    /\ workerId' = [workerId EXCEPT ![u] = Head(inbox[u]).workerId]
    /\ pyodideManager' = [pyodideManager EXCEPT ![u] = "created"]
    /\ initPc' = [initPc EXCEPT ![u] = "initializing"]
    /\ UNCHANGED <<mgrVars, numCalls, serverVars, alive, toMain, poolVars>>

\* initialize() has loaded the runtime: this.pyodide is set, the packages
\* are still to be loaded.
UnitInitLoaded(u) ==
    /\ alive[u] = "alive"
    /\ initPc[u] = "initializing"
    /\ MgrInitialize(u)
    /\ initPc' = [initPc EXCEPT ![u] = "loaded"]
    /\ UNCHANGED <<numCalls, serverVars, pyodideManager, workerId, alive,
                   inbox, toMain, poolVars>>

\* initialize() returns: handleInit posts ready.
UnitInitDone(u) ==
    /\ alive[u] = "alive"
    /\ initPc[u] = "loaded"
    /\ initPc' = [initPc EXCEPT ![u] = "done"]
    /\ Post(u, ReadyMsg(workerId[u]))
    /\ UNCHANGED <<mgrVars, numCalls, serverVars, pyodideManager, workerId,
                   alive, inbox, poolVars>>

UnitInitFail_Silent(u) ==
    /\ alive[u] = "alive"
    /\ initPc[u] \in {"initializing", "loaded"}
    /\ initPc' = [initPc EXCEPT ![u] = "failed"]
    /\ UNCHANGED <<mgrVars, numCalls, serverVars, pyodideManager, workerId,
                   alive, inbox, toMain, poolVars>>

\* initialize() throws: handleInit posts an error without id.
UnitInitFail(u) ==
    /\ alive[u] = "alive"
    /\ initPc[u] \in {"initializing", "loaded"}
    /\ initPc' = [initPc EXCEPT ![u] = "failed"]
    /\ Post(u, ErrorMsg(NoId, -1, "Worker initialization failed"))
    /\ UNCHANGED <<mgrVars, numCalls, serverVars, pyodideManager, workerId,
                   alive, inbox, poolVars>>

\* The message listener takes an execute message: handleExecute up to the
\* await of pyodideManager.execute, or to the catch when that throws.
UnitHandleExecute(u) ==
    /\ alive[u] = "alive"
    /\ inbox[u] # <<>>
    /\ Head(inbox[u]).type = "execute"
    /\ LET m == Head(inbox[u])
       IN /\ inbox' = [inbox EXCEPT ![u] = Tail(@)]
          /\ IF pyodideManager[u] = "null"
             THEN /\ Post(u, ErrorMsg(m.id, m.call,
                                      "PyodideManager not initialized"))
                  /\ UNCHANGED mgrVars
             ELSE /\ MgrExecute(m.call, u, m.code, m.resetGlobals, m.id)
                  /\ IF calls'[m.call].pc = "thrown"
                     THEN Post(u, ErrorMsg(m.id, m.call,
                                           calls'[m.call].error))
                     ELSE UNCHANGED toMain
    /\ UNCHANGED <<numCalls, serverVars, pyodideManager, workerId, initPc,
                   alive, poolVars>>

\* A waiting handleExecute activation gets the lock.
UnitPoll(c) ==
    /\ alive[calls[c].unit] = "alive"
    /\ MgrPoll(c)
    /\ IF calls'[c].pc = "thrown"
       THEN Post(calls[c].unit, ErrorMsg(calls[c].id, c, calls'[c].error))
       ELSE UNCHANGED toMain
    /\ UNCHANGED <<numCalls, serverVars, pyodideManager, workerId, initPc,
                   alive, inbox, poolVars>>

\* pyodideManager.execute returns and handleExecute posts the result, or it
\* throws and the catch block posts the error.
UnitRunComplete(c) ==
    /\ alive[calls[c].unit] = "alive"
    /\ MgrRunComplete(c)
    /\ IF calls'[c].pc = "thrown"
       THEN Post(calls[c].unit, ErrorMsg(calls[c].id, c, calls'[c].error))
       ELSE Post(calls[c].unit,
                 ResultMsg(calls[c].id, c, Envelope(calls'[c])))
    /\ UNCHANGED <<numCalls, serverVars, pyodideManager, workerId, initPc,
                   alive, inbox, poolVars>>

\* ------------------------------------------------------ JavaScript values
\* Values of a request body or of a configuration field; a missing field
\* reads as undefined.  The text of a string is the program it spells,
\* EmptySource for "".
EmptySource == [op |-> "", arg |-> 0]
JsUndefined ==
    [kind |-> "undefined", num |-> 0, bool |-> FALSE, src |-> EmptySource]
JsNumber(n) == [JsUndefined EXCEPT !.kind = "number", !.num = n]
JsBoolean(b) == [JsUndefined EXCEPT !.kind = "boolean", !.bool = b]
JsString(src) == [JsUndefined EXCEPT !.kind = "string", !.src = src]

\* !v
Falsy(v) ==
    \/ v.kind = "undefined"
    \/ v.kind = "string" /\ v.src = EmptySource
    \/ v.kind = "number" /\ v.num = 0
    \/ v.kind = "boolean" /\ ~v.bool

\* typeof v
TypeOf(v) == v.kind

\* v ?? d, for a boolean or missing v
Coalesce(v, d) == IF v.kind = "undefined" THEN d ELSE v.bool

\* -------------------------------------------------------------- WorkerPool
NoFuture ==
    [state |-> "none", id |-> NoId, result |-> NoEnvelope, error |-> "",
     cause |-> "", settles |-> 0, byCall |-> -1, byId |-> NoId]

\* resolve(value) / reject(error) of a promise: only the first call settles.
Settle(f, state, envelope, error, cause, byCall, byId) ==
    IF f.state = "pending"
    THEN [f EXCEPT !.state = state, !.result = envelope, !.error = error,
                   !.cause = cause, !.settles = @ + 1, !.byCall = byCall,
                   !.byId = byId]
    ELSE [f EXCEPT !.settles = @ + 1]

SettleCreate(p, state) == IF p = "pending" THEN state ELSE p

MapDelete_Keeps(map, key) == map

\* Map.delete(key)
MapDelete(map, key) == [k \in (DOMAIN map) \ {key} |-> map[k]]
\* Map.set(key, value)
MapSet(map, key, value) ==
    [k \in (DOMAIN map) \cup {key} |-> IF k = key THEN value ELSE map[k]]
EmptyMap == [k \in {} |-> [call |-> 0]]

\* The promise of initialize(): Promise.all over the createWorker promises.
InitPromise ==
    IF poolPhase = "constructed" THEN "none"
    ELSE IF \E u \in UnitIds : createPromise[u] = "rejected" THEN "rejected"
    ELSE IF \A u \in UnitIds : createPromise[u] = "resolved" THEN "resolved"
    ELSE "pending"

\* initialize(): createWorker(i) for every i, each up to its postMessage.
PoolInitialize ==
    /\ poolPhase = "constructed"
    /\ poolPhase' = "initialized"
    /\ workers' = [i \in 1..Cardinality(UnitIds) |-> [workerId |-> i - 1, ready |-> FALSE]]
    /\ createPromise' = [u \in UnitIds |-> "pending"]
    /\ readyListener' = [u \in UnitIds |-> TRUE]
    /\ inbox' = [u \in UnitIds |-> Append(inbox[u], InitMsg(u))]
    /\ UNCHANGED <<mgrVars, numCalls, serverVars, pyodideManager, workerId,
                   initPc, alive, toMain, pendingRequests, timers,
                   nextRequestId, poolExecutionCount, futures>>

WorkerFault_Unready(u) ==
    /\ poolPhase = "initialized"
    /\ alive[u] = "alive"
    /\ alive' = [alive EXCEPT ![u] = "crashed"]
    /\ createPromise' = [createPromise EXCEPT ![u] = SettleCreate(@, "rejected")]
    /\ workers' = [i \in 1..Len(workers) |->
           IF workers[i].workerId = u
           THEN [workers[i] EXCEPT !.ready = FALSE] ELSE workers[i]]
    /\ UNCHANGED <<mgrVars, numCalls, serverVars, pyodideManager, workerId,
                   initPc, inbox, toMain, poolPhase,
                   pendingRequests, timers, nextRequestId,
                   poolExecutionCount, futures, readyListener>>

\* The worker's "error" event: a fatal fault of the unit.
WorkerFault(u) ==
    /\ poolPhase = "initialized"
    /\ alive[u] = "alive"
    /\ alive' = [alive EXCEPT ![u] = "crashed"]
    /\ createPromise' = [createPromise EXCEPT ![u] = SettleCreate(@, "rejected")]
    /\ UNCHANGED <<mgrVars, numCalls, serverVars, pyodideManager, workerId,
                   initPc, inbox, toMain, poolPhase, workers,
                   pendingRequests, timers, nextRequestId,
                   poolExecutionCount, futures, readyListener>>

\* The indices of the ready entries of workers.
ReadyWorkers_All == {i \in 1..Len(workers) : TRUE}

ReadyWorkers_Gated ==
    IF \A i \in 1..Len(workers) : workers[i].ready
    THEN 1..Len(workers) ELSE {}

ReadyWorkers == {i \in 1..Len(workers) : workers[i].ready}

pyodideLoaded_Some ==
    Len(workers) > 0 /\ \E i \in 1..Len(workers) : workers[i].ready

\* pyodideLoaded()
pyodideLoaded ==
    Len(workers) > 0 /\ \A i \in 1..Len(workers) : workers[i].ready

\* The id the next execute call tags its request with.
AllocatedId_MapSize == Cardinality(DOMAIN pendingRequests)

\* The number spliced into the id: the value of nextRequestId before ++.
AllocatedId == nextRequestId

NextIdAfter_Stuck == nextRequestId

\* nextRequestId++
NextIdAfter == nextRequestId + 1

\* The delay used when the configured timeout is falsy.
DefaultTimeout == 30000

\* this.config.pyodideConfig.timeout || 30000
TimerDelay(timeout) == IF Falsy(timeout) THEN DefaultTimeout ELSE timeout.num

\* execute(code, resetGlobals)
PoolCountAfter_Always(accepted) == poolExecutionCount + 1

\* this.executionCount++ is the last statement of execute; the return in
\* the no-worker branch comes before it.
PoolCountAfter(accepted) ==
    IF accepted THEN poolExecutionCount + 1 ELSE poolExecutionCount

PoolExecute(code, reset) ==
    /\ numCalls < MaxRequests
    /\ numCalls' = numCalls + 1
    /\ nextRequestId' = NextIdAfter
    /\ LET n == numCalls
           requestId == RequestId(AllocatedId)
       IN IF ReadyWorkers = {}
          THEN /\ futures' = [futures EXCEPT ![n] =
                      Settle([NoFuture EXCEPT !.state = "pending",
                                              !.id = requestId],
                             "rejected", NoEnvelope, "No workers available",
                             "noworkers", -1, NoId)]
               /\ poolExecutionCount' = PoolCountAfter(FALSE)
               /\ UNCHANGED <<timers, pendingRequests, inbox>>
          ELSE \E workerIdx \in ReadyWorkers :
               /\ futures' = [futures EXCEPT ![n] =
                      [NoFuture EXCEPT !.state = "pending", !.id = requestId]]
               /\ timers' = timers \cup
                      {[key |-> requestId, call |-> n,
                        delay |-> TimerDelay(poolTimeout)]}
               /\ pendingRequests' =
                      MapSet(pendingRequests, requestId, [call |-> n])
               /\ inbox' = [inbox EXCEPT ![workers[workerIdx].workerId] =
                      Append(@, ExecuteMsg(requestId, code, reset, n))]
               /\ poolExecutionCount' = PoolCountAfter(TRUE)
    /\ UNCHANGED <<mgrVars, pyodideManager, workerId, initPc, alive, toMain,
                   poolPhase, workers, createPromise, readyListener>>

Timeout_NoReject(t) ==
    /\ t \in timers
    /\ timers' = timers \ {t}
    /\ pendingRequests' = [k \in (DOMAIN pendingRequests) \ {t.key} |->
                              pendingRequests[k]]
    /\ UNCHANGED <<mgrVars, numCalls, serverVars, unitVars, poolPhase,
                   workers, nextRequestId, poolExecutionCount, futures,
                   createPromise, readyListener>>

Timeout_Unlocks(t) ==
    /\ t \in timers
    /\ timers' = timers \ {t}
    /\ pendingRequests' = MapDelete(pendingRequests, t.key)
    /\ futures' = [futures EXCEPT ![t.call] =
           Settle(@, "rejected", NoEnvelope, "Request timeout", "timeout",
                  -1, NoId)]
    /\ executionLock' = [u \in DOMAIN executionLock |-> FALSE]
    /\ UNCHANGED <<pyodide, executionCount, globals, sys_last_exc, calls,
                   history, numCalls, serverVars, unitVars, poolPhase,
                   workers, nextRequestId, poolExecutionCount, createPromise,
                   readyListener>>

\* The timeout callback of the request registered by call t.call.
Timeout(t) ==
    /\ t \in timers
    /\ timers' = timers \ {t}
    /\ pendingRequests' = MapDelete(pendingRequests, t.key)
    /\ futures' = [futures EXCEPT ![t.call] =
           Settle(@, "rejected", NoEnvelope, "Request timeout", "timeout",
                  -1, NoId)]
    /\ UNCHANGED <<mgrVars, numCalls, serverVars, unitVars, poolPhase,
                   workers, nextRequestId, poolExecutionCount, createPromise,
                   readyListener>>

ClearTimeout_Forgotten(ts, pending) == ts

\* clearTimeout(pending.timeout)
ClearTimeout(ts, pending) == {t \in ts : t.call # pending.call}

\* Does handleWorkerMessage find a pending request for the message?
Matches(m) ==
    /\ m.type \in {"result", "error"}
    /\ m.id # NoId
    /\ m.id \in DOMAIN pendingRequests

\* handleWorkerMessage(workerId, event)
handleWorkerMessage(m) ==
    IF Matches(m)
    THEN LET pending == pendingRequests[m.id]
         IN /\ timers' = ClearTimeout(timers, pending)
            /\ pendingRequests' = MapDelete(pendingRequests, m.id)
            /\ futures' = [futures EXCEPT ![pending.call] =
                   IF m.type = "result"
                   THEN Settle(@, "resolved", m.result, "", "response",
                               m.call, m.id)
                   ELSE Settle(@, "rejected", NoEnvelope, m.error,
                               "response", m.call, m.id)]
    ELSE UNCHANGED <<timers, pendingRequests, futures>>

\* createWorker's readyListener, while it is attached.
ReadyListener(u, m) ==
    IF readyListener[u] /\ m.type = "ready" /\ m.workerId = u
    THEN /\ workers' = [i \in 1..Len(workers) |->
                IF workers[i].workerId = u
                THEN [workers[i] EXCEPT !.ready = TRUE] ELSE workers[i]]
         /\ readyListener' = [readyListener EXCEPT ![u] = FALSE]
         /\ createPromise' = [createPromise EXCEPT ![u] =
                SettleCreate(@, "resolved")]
    ELSE IF readyListener[u] /\ m.type = "error"
    THEN /\ createPromise' = [createPromise EXCEPT ![u] =
                SettleCreate(@, "rejected")]
         /\ UNCHANGED <<workers, readyListener>>
    ELSE UNCHANGED <<workers, readyListener, createPromise>>

\* A message event of worker u: both listeners run.
Deliver(u) ==
    /\ toMain[u] # <<>>
    /\ toMain' = [toMain EXCEPT ![u] = Tail(@)]
    /\ ReadyListener(u, Head(toMain[u]))
    /\ handleWorkerMessage(Head(toMain[u]))
    /\ UNCHANGED <<mgrVars, numCalls, serverVars, pyodideManager, workerId,
                   initPc, alive, inbox, poolPhase, nextRequestId,
                   poolExecutionCount>>

terminate_NoReject ==
    /\ poolPhase = "initialized"
    /\ poolPhase' = "terminated"
    /\ alive' = [u \in UnitIds |->
           IF alive[u] = "alive" THEN "terminated" ELSE alive[u]]
    /\ workers' = <<>>
    /\ pendingRequests' = [k \in {} |-> [call |-> 0]]
    /\ UNCHANGED <<mgrVars, numCalls, serverVars, pyodideManager, workerId,
                   initPc, inbox, toMain, nextRequestId, poolExecutionCount,
                   createPromise, readyListener, timers, futures>>

terminate_KeepsWorkers ==
    /\ poolPhase \in {"initialized", "terminated"}
    /\ poolPhase' = "terminated"
    /\ alive' = [u \in UnitIds |->
           IF alive[u] = "alive" THEN "terminated" ELSE alive[u]]
    /\ timers' = {t \in timers :
           \A k \in DOMAIN pendingRequests :
               t \in ClearTimeout(timers, pendingRequests[k])}
    /\ futures' = [n \in DOMAIN futures |->
           IF \E k \in DOMAIN pendingRequests : pendingRequests[k].call = n
           THEN Settle(futures[n], "rejected", NoEnvelope,
                       "WorkerPool terminated", "terminate", -1, NoId)
           ELSE futures[n]]
    /\ pendingRequests' = EmptyMap
    /\ UNCHANGED <<mgrVars, numCalls, serverVars, pyodideManager, workerId,
                   initPc, inbox, toMain, nextRequestId, poolExecutionCount,
                   createPromise, readyListener, workers>>

\* terminate(), on an initialized pool or once more on a terminated one
terminate ==
    /\ poolPhase \in {"initialized", "terminated"}
    /\ poolPhase' = "terminated"
    /\ alive' = [u \in UnitIds |->
           IF alive[u] = "alive" THEN "terminated" ELSE alive[u]]
    /\ workers' = <<>>
    /\ timers' = {t \in timers :
           \A k \in DOMAIN pendingRequests :
               t \in ClearTimeout(timers, pendingRequests[k])}
    /\ futures' = [n \in DOMAIN futures |->
           IF \E k \in DOMAIN pendingRequests : pendingRequests[k].call = n
           THEN Settle(futures[n], "rejected", NoEnvelope,
                       "WorkerPool terminated", "terminate", -1, NoId)
           ELSE futures[n]]
    /\ pendingRequests' = EmptyMap
    /\ UNCHANGED <<mgrVars, numCalls, serverVars, pyodideManager, workerId,
                   initPc, inbox, toMain, nextRequestId, poolExecutionCount,
                   createPromise, readyListener>>

\* ------------------------------------------- single-instance deployment
\* The worker and pool state of a deployment that has none.
NoUnits(ids) ==
    /\ pyodideManager = [u \in ids |-> "null"]
    /\ workerId = [u \in ids |-> -1]
    /\ initPc = [u \in ids |-> "idle"]
    /\ alive = [u \in ids |-> "alive"]
    /\ inbox = [u \in ids |-> <<>>]
    /\ toMain = [u \in ids |-> <<>>]

NoPool(ids) ==
    /\ poolPhase = "constructed"
    /\ workers = <<>>
    /\ pendingRequests = EmptyMap
    /\ timers = {}
    /\ nextRequestId = 0
    /\ poolExecutionCount = 0
    /\ futures = [n \in 0..(MaxRequests - 1) |-> NoFuture]
    /\ createPromise = [u \in ids |-> "none"]
    /\ readyListener = [u \in ids |-> FALSE]

\* No server: the manager or the pool is used as a library.
NoServer ==
    /\ serverConfig = [workerCount |-> 0, resetGlobals |-> FALSE]
    /\ http = <<>>
    /\ now = 0
    /\ poolTimeout = JsUndefined

\* One PyodideManager (unit 0) called directly by concurrent callers.
InitMgr ==
    /\ pyodide = [u \in {0} |-> FALSE]
    /\ executionLock = [u \in {0} |-> FALSE]
    /\ executionCount = [u \in {0} |-> 0]
    /\ globals = [u \in {0} |-> EmptyEnv]
    /\ sys_last_exc = [u \in {0} |-> ""]
    /\ calls = [c \in 0..(MaxCalls - 1) |-> NoCall]
    /\ numCalls = 0
    /\ history = <<>>
    /\ NoUnits({})
    /\ NoPool({})
    /\ NoServer

DirectInitialize ==
    MgrInitialize(0) /\ UNCHANGED <<numCalls, serverVars, unitVars, poolVars>>

DirectExecute(code, reset) ==
    /\ numCalls < MaxCalls
    /\ MgrExecute(numCalls, 0, code, reset, NoId)
    /\ numCalls' = numCalls + 1
    /\ UNCHANGED <<unitVars, poolVars, serverVars>>

DirectPoll(c) == MgrPoll(c) /\ UNCHANGED <<numCalls, serverVars, unitVars,
                                           poolVars>>

DirectComplete(c) ==
    MgrRunComplete(c) /\ UNCHANGED <<numCalls, serverVars, unitVars,
                                     poolVars>>

NextMgr ==
    \/ DirectInitialize
    \/ \E code \in Codes, reset \in BOOLEAN : DirectExecute(code, reset)
    \/ \E c \in CallIds : DirectPoll(c)
    \/ \E c \in CallIds : DirectComplete(c)

SpecMgr == InitMgr /\ [][NextMgr]_vars

\* The manager, with every runtime invocation settling and every polling
\* caller testing the flag again and again.
SpecMgrLive ==
    /\ SpecMgr
    /\ \A c \in 0..(MaxCalls - 1) :
           WF_vars(DirectComplete(c)) /\ WF_vars(DirectPoll(c))

\* ------------------------------------------- the manager and the clock
\* Time passes between the steps of the callers.
Tick ==
    /\ now < MaxTime
    /\ now' = now + 1
    /\ UNCHANGED <<mgrVars, numCalls, serverConfig, http, poolTimeout,
                   unitVars, poolVars>>

NextClock ==
    \/ DirectInitialize
    \/ \E code \in {Assign(42), Read}, reset \in BOOLEAN :
           DirectExecute(code, reset)
    \/ \E c \in CallIds : DirectPoll(c)
    \/ \E c \in CallIds : DirectComplete(c)
    \/ Tick

SpecClock == InitMgr /\ [][NextClock]_vars

\* ------------------------------------------------------- pool deployment
\* The programs submitted to the pool: one that binds x and returns nothing,
\* one that returns x or fails with NameError.
PoolCodes == {Assign(42), Read}

\* A constructed WorkerPool and its workers, before initialize().
InitPool ==
    /\ pyodide = [u \in Units(NumUnits) |-> FALSE]
    /\ executionLock = [u \in Units(NumUnits) |-> FALSE]
    /\ executionCount = [u \in Units(NumUnits) |-> 0]
    /\ globals = [u \in Units(NumUnits) |-> EmptyEnv]
    /\ sys_last_exc = [u \in Units(NumUnits) |-> ""]
    /\ calls = [c \in 0..(MaxRequests - 1) |-> NoCall]
    /\ numCalls = 0
    /\ history = <<>>
    /\ NoUnits(Units(NumUnits))
    /\ NoPool(Units(NumUnits))
    /\ NoServer

\* A caller of the pool other than the server calls execute.
CallerExecute(code, reset) ==
    PoolExecute(code, reset) /\ UNCHANGED serverVars

NextPool ==
    \/ PoolInitialize
    \/ \E u \in UnitIds : UnitHandleInit(u)
    \/ \E u \in UnitIds : UnitInitLoaded(u)
    \/ \E u \in UnitIds : UnitInitDone(u)
    \/ \E u \in UnitIds : UnitInitFail(u)
    \/ \E u \in UnitIds : UnitHandleExecute(u)
    \/ \E c \in CallIds : UnitPoll(c)
    \/ \E c \in CallIds : UnitRunComplete(c)
    \/ \E u \in UnitIds : WorkerFault(u)
    \/ \E u \in UnitIds : Deliver(u)
    \/ \E code \in PoolCodes, reset \in BOOLEAN : CallerExecute(code, reset)
    \/ \E t \in timers : Timeout(t)
    \/ terminate

SpecPool == InitPool /\ [][NextPool]_vars

\* The timeout callback of the request registered by the n-th execute call.
TimerFires(n) == \E t \in timers : t.call = n /\ Timeout(t)

\* The pool, with every armed timer eventually firing.
SpecPoolLive ==
    SpecPool /\ \A n \in 0..(MaxRequests - 1) : WF_vars(TimerFires(n))

\* --------------------------------------------- a pool and its timeout
\* A pool of one unit constructed with a timeout that is missing, 0, 1 or
\* 30000 milliseconds.
Timeouts == {JsUndefined, JsNumber(0), JsNumber(1), JsNumber(DefaultTimeout)}

InitTimer ==
    /\ pyodide = [u \in Units(1) |-> FALSE]
    /\ executionLock = [u \in Units(1) |-> FALSE]
    /\ executionCount = [u \in Units(1) |-> 0]
    /\ globals = [u \in Units(1) |-> EmptyEnv]
    /\ sys_last_exc = [u \in Units(1) |-> ""]
    /\ calls = [c \in 0..(MaxRequests - 1) |-> NoCall]
    /\ numCalls = 0
    /\ history = <<>>
    /\ NoUnits(Units(1))
    /\ NoPool(Units(1))
    /\ serverConfig = [workerCount |-> 0, resetGlobals |-> FALSE]
    /\ http = <<>>
    /\ now = 0
    /\ poolTimeout \in Timeouts

SpecTimer == InitTimer /\ [][NextPool]_vars

\* ------------------------------------------------------- a worker alone
\* One worker (unit 0) and the page that created it: the page posts one init
\* message and execute messages in any order; what the worker posts back
\* stays in toMain.
\* The programs posted to it: one that binds x, one that returns x or fails
\* with NameError, one whose result cannot be converted.
UnitCodes == {Assign(42), Read, BadStr}

InitUnit ==
    /\ pyodide = [u \in {0} |-> FALSE]
    /\ executionLock = [u \in {0} |-> FALSE]
    /\ executionCount = [u \in {0} |-> 0]
    /\ globals = [u \in {0} |-> EmptyEnv]
    /\ sys_last_exc = [u \in {0} |-> ""]
    /\ calls = [c \in 0..(MaxUnitMessages - 1) |-> NoCall]
    /\ numCalls = 0
    /\ history = <<>>
    /\ NoUnits({0})
    /\ NoPool({})
    /\ NoServer

\* worker.postMessage({type: "init", workerId: w, ...}), once.
PagePostInit(w) ==
    /\ initPc[0] = "idle"
    /\ \A i \in 1..Len(inbox[0]) : inbox[0][i].type # "init"
    /\ inbox' = [inbox EXCEPT ![0] = Append(@, InitMsg(w))]
    /\ UNCHANGED <<mgrVars, numCalls, serverVars, pyodideManager, workerId,
                   initPc, alive, toMain, poolVars>>

\* worker.postMessage({type: "execute", id, code, resetGlobals}).
PagePostExecute(code, reset) ==
    /\ numCalls < MaxUnitMessages
    /\ inbox' = [inbox EXCEPT ![0] =
           Append(@, ExecuteMsg(RequestId(numCalls), code, reset, numCalls))]
    /\ numCalls' = numCalls + 1
    /\ UNCHANGED <<mgrVars, pyodideManager, workerId, initPc, alive, toMain,
                   poolVars, serverVars>>

NextUnit ==
    \/ \E w \in Units(NumUnits) : PagePostInit(w)
    \/ \E code \in UnitCodes, reset \in BOOLEAN : PagePostExecute(code, reset)
    \/ UnitHandleInit(0)
    \/ UnitInitLoaded(0)
    \/ UnitInitDone(0)
    \/ UnitInitFail(0)
    \/ UnitHandleExecute(0)
    \/ \E c \in CallIds : UnitPoll(c)
    \/ \E c \in CallIds : UnitRunComplete(c)

SpecUnit == InitUnit /\ [][NextUnit]_vars

\* ------------------------------------------------------------ server.ts
\* The request bodies: code missing, not a string, empty, or a program;
\* reset_globals missing or a boolean.
ServerCodes == {Assign(42), Read, BadStr}
Bodies ==
    [code : {JsUndefined, JsNumber(7), JsString(EmptySource)}
                \cup {JsString(c) : c \in ServerCodes},
     reset_globals : {JsUndefined, JsBoolean(TRUE), JsBoolean(FALSE)}]

ValidCode_TypeOnly(body) == TypeOf(body.code) = "string"

\* The negation of the test  !body.code || typeof body.code !== "string".
ValidCode(body) == ~(Falsy(body.code) \/ TypeOf(body.code) # "string")

ResetGlobalsFor_AnyPool(config, body) ==
    IF config.workerCount > 0 THEN TRUE
    ELSE Coalesce(body.reset_globals, config.resetGlobals)

\* resetGlobals = config.workerCount > 1 ? true
\*                   : body.reset_globals ?? defaultResetGlobals
ResetGlobalsFor(config, body) ==
    IF config.workerCount > 1 THEN TRUE
    ELSE Coalesce(body.reset_globals, config.resetGlobals)

HasWorkerPool_MoreThanOne == serverConfig.workerCount > 1

\* startServer has a WorkerPool when workerCount > 0, else a PyodideManager.
HasWorkerPool == serverConfig.workerCount > 0

\* startServer calls Bun.serve after the await of initialize().
Listening ==
    IF HasWorkerPool THEN InitPromise = "resolved" ELSE pyodide[0]

\* startServer: new WorkerPool(...) and workerPool.initialize().
ServerStartPool == HasWorkerPool /\ PoolInitialize

\* startServer: new PyodideManager(...) and pyodideManager.initialize().
ServerStartManager == ~HasWorkerPool /\ DirectInitialize

\* handleExecute up to the await of execute, or to the 400 response.
handleExecute(body) ==
    /\ Listening
    /\ Len(http) < MaxHttp
    /\ IF ~ValidCode(body)
       THEN /\ http' = Append(http, [body |-> body, valid |-> FALSE,
                                     call |-> -1])
            /\ UNCHANGED <<mgrVars, numCalls, unitVars, poolVars>>
       ELSE /\ http' = Append(http, [body |-> body, valid |-> TRUE,
                                     call |-> numCalls])
            /\ IF HasWorkerPool
               THEN PoolExecute(body.code.src,
                                ResetGlobalsFor(serverConfig, body))
               ELSE /\ MgrExecute(numCalls, 0, body.code.src,
                                  ResetGlobalsFor(serverConfig, body), NoId)
                    /\ numCalls' = numCalls + 1
                    /\ UNCHANGED <<unitVars, poolVars>>
    /\ UNCHANGED <<serverConfig, now, poolTimeout>>

HealthExecutionCount_Pending == Cardinality(DOMAIN pendingRequests)

\* handleHealth: execution_count is workerPool?.getExecutionCount() ||
\* pyodideManager?.getExecutionCount() || 0; the variable that is null
\* yields undefined, which || skips like 0.
HealthExecutionCount ==
    LET ofPool == IF HasWorkerPool THEN poolExecutionCount ELSE 0
        ofManager == IF HasWorkerPool THEN 0 ELSE executionCount[0]
    IN IF ofPool # 0 THEN ofPool
       ELSE IF ofManager # 0 THEN ofManager
       ELSE 0

\* handleHealth: GET /health builds its response from reads only.
handleHealth == Listening /\ UNCHANGED vars

\* handleExecute: the HTTP status of the response to a request whose
\* execution is the invocation call.
HttpStatus(call) ==
    CASE call.pc = "returned" -> 200
      [] call.pc = "thrown" -> 500
      [] OTHER -> 0

\* error.message || "Internal server error"
ErrorText(message) ==
    IF message = "" THEN "Internal server error" ELSE message

NoResponse == [status |-> 0, body |-> NoEnvelope, error |-> ""]

\* The response to the k-th request, NoResponse while it is awaited: 400
\* for an invalid body, 200 with the envelope when execute returned, 500
\* when it threw.
Response(k) ==
    LET r == http[k]
    IN IF ~r.valid
       THEN [status |-> 400, body |-> [status |-> "error", result |-> JsNull],
             error |-> "Missing or invalid \"code\" field"]
       ELSE IF HasWorkerPool
       THEN CASE futures[r.call].state = "resolved" ->
                   [status |-> 200, body |-> futures[r.call].result,
                    error |-> ""]
              [] futures[r.call].state = "rejected" ->
                   [status |-> 500,
                    body |-> [status |-> "error", result |-> JsNull],
                    error |-> ErrorText(futures[r.call].error)]
              [] OTHER -> NoResponse
       ELSE CASE HttpStatus(calls[r.call]) = 200 ->
                   [status |-> 200, body |-> Envelope(calls[r.call]),
                    error |-> ""]
              [] HttpStatus(calls[r.call]) = 500 ->
                   [status |-> 500,
                    body |-> [status |-> "error", result |-> JsNull],
                    error |-> ErrorText(calls[r.call].error)]
              [] OTHER -> NoResponse

\* The server started with workerCount workers (0: one PyodideManager in
\* the server's own thread) and a default for reset_globals.
InitServer ==
    /\ \E workerCount \in 0..NumUnits, resetGlobals \in BOOLEAN :
          /\ serverConfig = [workerCount |-> workerCount,
                             resetGlobals |-> resetGlobals]
          /\ LET mgrs == IF workerCount = 0 THEN {0} ELSE Units(workerCount)
             IN /\ pyodide = [u \in mgrs |-> FALSE]
                /\ executionLock = [u \in mgrs |-> FALSE]
                /\ executionCount = [u \in mgrs |-> 0]
                /\ globals = [u \in mgrs |-> EmptyEnv]
                /\ sys_last_exc = [u \in mgrs |-> ""]
          /\ NoUnits(Units(workerCount))
          /\ NoPool(Units(workerCount))
    /\ calls = [c \in 0..(MaxHttp - 1) |-> NoCall]
    /\ numCalls = 0
    /\ history = <<>>
    /\ http = <<>>
    /\ now = 0
    /\ poolTimeout = JsNumber(DefaultTimeout)

NextServer ==
    \/ ServerStartPool
    \/ ServerStartManager
    \/ \E u \in UnitIds : UnitHandleInit(u)
    \/ \E u \in UnitIds : UnitInitLoaded(u)
    \/ \E u \in UnitIds : UnitInitDone(u)
    \/ \E u \in UnitIds : UnitInitFail(u)
    \/ \E u \in UnitIds : UnitHandleExecute(u)
    \/ \E c \in CallIds : HasWorkerPool /\ UnitPoll(c)
    \/ \E c \in CallIds : HasWorkerPool /\ UnitRunComplete(c)
    \/ \E u \in UnitIds : WorkerFault(u)
    \/ \E u \in UnitIds : Deliver(u)
    \/ \E t \in timers : Timeout(t)
    \/ \E c \in CallIds : ~HasWorkerPool /\ DirectPoll(c)
    \/ \E c \in CallIds : ~HasWorkerPool /\ DirectComplete(c)
    \/ \E body \in Bodies : handleExecute(body)
    \/ handleHealth

SpecServer == InitServer /\ [][NextServer]_vars

\* ------------------------------------- a pool of one unit and a manager
\* A WorkerPool of one unit (unit 0) and a PyodideManager used directly
\* (manager 1), given the same requests one at a time: request n is call
\* MaxRequests + n of the manager and call n of the pool, and is submitted
\* once both are initialized and request n - 1 has settled on both. No timer
\* fires and no activation ever waits for the lock.
MirrorCall(n) == MaxRequests + n

Awaited(n) ==
    /\ futures[n].state \in {"resolved", "rejected"}
    /\ calls[MirrorCall(n)].pc \in {"returned", "thrown"}

InitEquiv ==
    /\ pyodide = [u \in {0, 1} |-> FALSE]
    /\ executionLock = [u \in {0, 1} |-> FALSE]
    /\ executionCount = [u \in {0, 1} |-> 0]
    /\ globals = [u \in {0, 1} |-> EmptyEnv]
    /\ sys_last_exc = [u \in {0, 1} |-> ""]
    /\ calls = [c \in 0..(2 * MaxRequests - 1) |-> NoCall]
    /\ numCalls = 0
    /\ history = <<>>
    /\ NoUnits(Units(1))
    /\ NoPool(Units(1))
    /\ NoServer

\* await manager.initialize()
MirrorInitialize ==
    MgrInitialize(1) /\ UNCHANGED <<numCalls, serverVars, unitVars, poolVars>>

\* The caller submits request numCalls to the manager ...
MirrorExecute(code, reset) ==
    /\ numCalls < MaxRequests
    /\ pyodide[1] /\ InitPromise = "resolved"
    /\ calls[MirrorCall(numCalls)].pc = "idle"
    /\ numCalls > 0 => Awaited(numCalls - 1)
    /\ MgrExecute(MirrorCall(numCalls), 1, code, reset, NoId)
    /\ UNCHANGED <<numCalls, unitVars, poolVars, serverVars>>

\* ... and the same request to the pool.
MirrorDispatch ==
    /\ numCalls < MaxRequests
    /\ calls[MirrorCall(numCalls)].pc # "idle"
    /\ CallerExecute(calls[MirrorCall(numCalls)].code,
                     calls[MirrorCall(numCalls)].resetGlobals)

NextEquiv ==
    \/ PoolInitialize
    \/ UnitHandleInit(0)
    \/ UnitInitLoaded(0)
    \/ UnitInitDone(0)
    \/ UnitHandleExecute(0)
    \/ \E n \in 0..(MaxRequests - 1) : UnitRunComplete(n)
    \/ Deliver(0)
    \/ MirrorInitialize
    \/ \E code \in Codes, reset \in BOOLEAN : MirrorExecute(code, reset)
    \/ \E n \in 0..(MaxRequests - 1) : DirectComplete(MirrorCall(n))
    \/ MirrorDispatch

SpecEquiv == InitEquiv /\ [][NextEquiv]_vars

\* =================================================================== claims
Running(u) == {c \in CallIds : calls[c].pc = "running" /\ calls[c].unit = u}
Waiting(u) == {c \in CallIds : calls[c].pc = "waiting" /\ calls[c].unit = u}

\* C1: on one manager at most one invocation is between acquiring and
\* releasing executionLock, it holds the lock for that whole time, and the
\* lock is never held when no invocation is inside.
C1_MutualExclusion ==
    \A u \in DOMAIN executionLock :
        /\ Cardinality(Running(u)) <= 1
        /\ executionLock[u] <=> Running(u) # {}

\* An execution has finished, another one is inside the lock, and a third
\* caller is polling.
C1_Witness ==
    /\ Len(history) >= 1
    /\ Running(0) # {}
    /\ Waiting(0) # {}

\* C4, state part: an invocation whose runtime call failed has returned an
\* envelope with status "exception" and the non-null last-error text, and
\* the manager can still be entered (the lock is not left behind).
C4_Envelope ==
    /\ \A c \in CallIds :
          calls[c].raised # "" =>
              /\ calls[c].pc = "returned"
              /\ calls[c].status = "exception"
              /\ ~calls[c].result.isNull
              /\ calls[c].result.str = Repr(calls[c].raised)
              /\ Contains(calls[c].result.str, calls[c].raised)
    /\ \A u \in DOMAIN executionLock :
          (Running(u) = {}) => ~executionLock[u]

\* C4, step part: on an initialized manager an invocation whose program
\* fails never throws, and the handle is never lost.
C4_NoThrow ==
    \A c \in CallIds :
        pyodide[0] =>
            /\ pyodide'[0]
            /\ (calls[c].pc = "running" /\ calls'[c].pc = "thrown") =>
                   RunCode(calls[c].code,
                           RunEnv(calls[c].unit,
                                  calls[c].resetGlobals)).raised = ""

\* C4: on an initialized manager a failing program (exit() included) is
\* returned as an "exception" envelope carrying the last-error text, never
\* thrown, and the manager stays usable.
C4_ExceptionCaptured == []C4_Envelope /\ [][C4_NoThrow]_vars

\* exit() came back as an exception envelope and a later call succeeded.
C4_Witness ==
    \E i, j \in 1..Len(history) :
        /\ i < j
        /\ history[i].code = Exit
        /\ history[i].status = "exception"
        /\ Contains(history[i].result.str, "SystemExit")
        /\ history[i].call < history[j].call
        /\ history[j].status = "success"

\* The value bound to x in the persistent namespace before the i-th
\* returned execution: that of the latest earlier resetGlobals=false
\* assignment (0 if there is none).
PersistentAssigns(i) ==
    {j \in 1..(i - 1) :
        history[j].code.op = "assign" /\ ~history[j].resetGlobals}

LastAssigned(i) ==
    IF PersistentAssigns(i) = {} THEN 0
    ELSE history[CHOOSE j \in PersistentAssigns(i) :
                    \A k \in PersistentAssigns(i) : k <= j].code.arg

\* C5: a resetGlobals=false read sees the latest binding made by an earlier
\* resetGlobals=false request; a resetGlobals=true read sees no binding at
\* all, whatever ran before it.
C5_NamespaceIsolation ==
    \A i \in 1..Len(history) :
        history[i].code = Read =>
            IF ~history[i].resetGlobals /\ PersistentAssigns(i) # {}
            THEN /\ history[i].raised = ""
                 /\ history[i].result = JsStr(IntToString(LastAssigned(i)))
            ELSE /\ history[i].raised = "NameError"
                 /\ Contains(history[i].result.str, "NameError")

\* x = 42 without reset, then x read without reset ("42") and with reset
\* (NameError).
C5_Witness ==
    /\ Len(history) = 3
    /\ history[1].code = Assign(42) /\ ~history[1].resetGlobals
    /\ history[2].code = Read /\ ~history[2].resetGlobals
    /\ history[2].result = JsStr(<<"4", "2">>)
    /\ history[3].code = Read /\ history[3].resetGlobals
    /\ Contains(history[3].result.str, "NameError")

\* C6: a read of x under resetGlobals=true, after x was bound without reset,
\* returns status "success" with a non-null result containing NameError,
\* as HTTP 200.
C6_ResetReadIsSuccess ==
    \A i \in 1..Len(history) :
        (/\ history[i].code = Read
         /\ history[i].resetGlobals
         /\ PersistentAssigns(i) # {}) =>
            /\ history[i].status = "success"
            /\ ~history[i].result.isNull
            /\ Contains(history[i].result.str, "NameError")
            /\ HttpStatus(calls[history[i].call]) = 200

\* The n-th execute call has an entry in the pending table.
Registered(n) ==
    \E k \in DOMAIN pendingRequests : pendingRequests[k].call = n
Settled(n) == futures[n].state \in {"resolved", "rejected"}
RequestNos == DOMAIN futures
InFlight(n) ==
    \E u \in UnitIds : \E i \in 1..Len(toMain[u]) : toMain[u][i].call = n

\* C2: with timers that eventually fire, every registered request is
\* eventually removed from the pending table with its future settled, and
\* no future is pending once the pool is terminated.
C2_EventuallySettled ==
    /\ \A n \in 0..(MaxRequests - 1) :
          Registered(n) ~> (~Registered(n) /\ Settled(n))
    /\ [](poolPhase = "terminated" =>
             \A n \in RequestNos : futures[n].state # "pending")

\* A request was rejected by its timer because its unit had crashed with
\* the request unanswered.
C2_Witness ==
    \E n \in RequestNos :
        /\ futures[n].cause = "timeout"
        /\ calls[n].pc = "idle"
        /\ \E u \in UnitIds :
              /\ alive[u] = "crashed"
              /\ \E i \in 1..Len(inbox[u]) : inbox[u][i].call = n

\* C3: a future is settled by at most one resolve/reject call, and once it
\* is settled neither a pending entry nor an armed timer is left that could
\* settle it again; while it is pending both are there.
C3_SettledOnce ==
    \A n \in RequestNos :
        /\ futures[n].settles <= 1
        /\ Settled(n) => futures[n].settles = 1
        /\ Registered(n) <=> futures[n].state = "pending"
        /\ (\E t \in timers : t.call = n) <=> futures[n].state = "pending"

\* A request timed out, and the late response of its unit has since been
\* delivered without settling it again.
C3_Witness ==
    \E n \in RequestNos :
        /\ futures[n].cause = "timeout"
        /\ futures[n].settles = 1
        /\ calls[n].pc = "returned"
        /\ ~InFlight(n)

\* C7: a future settled by a unit message was settled by the message that
\* carries the id allocated to its call and that answers its own request:
\* a resolved future holds the envelope its own execution returned.
C7_MatchedById ==
    \A n \in RequestNos :
        futures[n].cause = "response" =>
            /\ futures[n].byId = futures[n].id
            /\ futures[n].byCall = n
            /\ futures[n].state = "resolved" =>
                   /\ calls[n].pc = "returned"
                   /\ futures[n].result = Envelope(calls[n])
            /\ futures[n].state = "rejected" => calls[n].pc # "returned"

\* Two requests were answered in the reverse of their submission order and
\* each future holds its own, different, envelope.
C7_Witness ==
    /\ Len(history) = 2
    /\ history[1].call = 1
    /\ history[2].call = 0
    /\ futures[0].state = "resolved"
    /\ futures[1].state = "resolved"
    /\ futures[0].result # futures[1].result

\* C8, timeout step: the expiry of a timer removes the entry of its request
\* and rejects its future with the timeout error.
C8_Expiry ==
    \A t \in timers :
        Timeout(t) =>
            /\ t.key \notin DOMAIN pendingRequests'
            /\ futures'[t.call].state = "rejected"
            /\ futures'[t.call].error = "Request timeout"

\* C8, late message: a message for a timed-out request changes nothing.
C8_LateDropped ==
    \A u \in UnitIds :
        (/\ toMain[u] # <<>>
         /\ toMain'[u] = Tail(toMain[u])
         /\ Head(toMain[u]).call \in RequestNos
         /\ futures[Head(toMain[u]).call].cause = "timeout") =>
            UNCHANGED <<pendingRequests, timers, futures,
                        poolExecutionCount, nextRequestId, workers>>

\* C8: a timer that expires before a response removes the pending entry and
\* rejects the caller with a timeout error; the late response is dropped
\* without any effect on the dispatcher.
C8_TimeoutThenDrop == [][C8_Expiry /\ C8_LateDropped]_vars

\* The late result of a timed-out request was dropped while the other
\* request is still pending.
C8_Witness ==
    \E n, m \in RequestNos :
        /\ futures[n].cause = "timeout"
        /\ calls[n].pc = "returned"
        /\ ~InFlight(n)
        /\ futures[m].state = "pending"

\* C9: terminate() terminates every unit, rejects every pending request with
\* the pool-terminated error, cancels their timers and leaves the pending
\* table and the unit list empty.
C9_Teardown ==
    [][(poolPhase = "initialized" /\ poolPhase' = "terminated") =>
          /\ \A u \in UnitIds : alive'[u] # "alive"
          /\ workers' = <<>>
          /\ DOMAIN pendingRequests' = {}
          /\ timers' = {}
          /\ \A n \in RequestNos :
                Registered(n) =>
                    /\ futures'[n].state = "rejected"
                    /\ futures'[n].error = "WorkerPool terminated"
          /\ \A n \in RequestNos :
                ~Registered(n) => futures'[n] = futures[n]]_vars

\* The pool was terminated while a unit was running a request, which was
\* rejected as terminated.
C9_Witness ==
    /\ poolPhase = "terminated"
    /\ \E n \in RequestNos :
          /\ futures[n].cause = "terminate"
          /\ calls[n].pc = "running"

\* C10, state part: pyodideLoaded() is true only when all NumUnits units are
\* in the list, flagged ready, and have each really reported ready.
C10_OnlyIfAllReady ==
    pyodideLoaded =>
        /\ Len(workers) = NumUnits
        /\ \A i \in 1..Len(workers) : workers[i].ready
        /\ \A u \in UnitIds : initPc[u] = "done"

\* C10, step part: the value becomes true only when the ready message of
\* the last unit is handled, and false again only when terminate() drops
\* the units.
C10_ChangesWithUnits ==
    /\ (~pyodideLoaded /\ pyodideLoaded') =>
           \E u \in UnitIds :
               /\ toMain[u] # <<>>
               /\ Head(toMain[u]) = ReadyMsg(u)
               /\ toMain'[u] = Tail(toMain[u])
               /\ \E i \in 1..Len(workers) :
                      /\ workers[i].workerId = u
                      /\ ~workers[i].ready
                      /\ workers'[i].ready
    /\ (pyodideLoaded /\ ~pyodideLoaded') =>
           (poolPhase = "initialized" /\ poolPhase' = "terminated")

\* C10: pyodideLoaded() is false until every one of the units has reported
\* ready, false while only some are ready, and changes value only when a
\* unit's state changes.
C10_LoadedOnlyIfAllReady ==
    []C10_OnlyIfAllReady /\ [][C10_ChangesWithUnits]_vars

\* Every unit has reported ready and the pool reports loaded.
C10_Witness ==
    /\ pyodideLoaded
    /\ \A u \in UnitIds : (toMain[u] = <<>> /\ initPc[u] = "done")

\* ------------------------------------------------------- claims C11 - C20
\* The invocations whose runtime invocation has settled: they came back with
\* an envelope, or threw while converting the result.
Settled14(u) ==
    {c \in CallIds : /\ calls[c].unit = u
                     /\ \/ calls[c].pc = "returned"
                        \/ calls[c].pc = "thrown" /\ calls[c].error = "PythonError"}

\* C14, as amended: every invocation that reaches the runtime invocation
\* increments the counter exactly once when it settles, whether the program
\* succeeded or raised; an invocation that throws because the runtime handle
\* is not initialized leaves the counter unchanged.
C14_CountsRuntimeInvocations ==
    \A u \in DOMAIN executionCount :
        executionCount[u] = Cardinality(Settled14(u))

\* C14, as stated: every invocation that has exited, by whichever path,
\* has incremented the counter exactly once.
C14_CountsEveryExit ==
    \A u \in DOMAIN executionCount :
        executionCount[u] =
            Cardinality({c \in CallIds : /\ calls[c].unit = u
                                         /\ calls[c].pc \in {"returned", "thrown"}})

\* One invocation threw before the handle was set, one returned "success"
\* and one returned "exception": the counter stands at two.
C14_Witness ==
    /\ executionCount[0] = 2
    /\ \E a, b, c \in CallIds :
          /\ calls[a].pc = "thrown" /\ calls[a].error = "Pyodide not initialized"
          /\ calls[b].pc = "returned" /\ calls[b].status = "success"
          /\ calls[c].pc = "returned" /\ calls[c].status = "exception"

\* The invocations on u whose Namespace exists and was not released.
LiveNamespaces(u) ==
    {c \in CallIds : /\ calls[c].unit = u
                     /\ calls[c].context.created
                     /\ calls[c].context.destroys = 0}

\* C15: a Namespace is created only when resetNamespace is true; it is
\* released exactly once by the time the invocation has returned or thrown
\* and the lock is cleared, never twice; with the lock clear no Namespace
\* is live.
C15_NamespaceReleasedOnce ==
    /\ \A c \in CallIds :
          /\ calls[c].context.created => calls[c].resetGlobals
          /\ calls[c].context.destroys <= 1
          /\ calls[c].pc = "running" =>
                 /\ calls[c].context.created = calls[c].resetGlobals
                 /\ calls[c].context.destroys = 0
          /\ calls[c].pc \in {"returned", "thrown"} =>
                 calls[c].context.destroys =
                     IF calls[c].context.created THEN 1 ELSE 0
    /\ \A u \in DOMAIN executionLock :
          ~executionLock[u] => LiveNamespaces(u) = {}

\* Fresh-namespace invocations ended in success, in an exception envelope
\* and in a conversion fault; each released its Namespace.
C15_Witness ==
    \E a, b, c \in CallIds :
        /\ calls[a].pc = "returned" /\ calls[a].status = "success"
        /\ calls[b].pc = "returned" /\ calls[b].status = "exception"
        /\ calls[c].pc = "thrown" /\ calls[c].error = "PythonError"
        /\ \A d \in {a, b, c} : /\ calls[d].context.created
                                 /\ calls[d].context.destroys = 1
        /\ ~executionLock[0]

\* C11: an execute call made while no unit is ready is rejected at once
\* with "No workers available": no pending entry, no timer, no message to
\* a unit, and the execution count stays as it was.
C11_FailsFast ==
    [][\A n \in RequestNos :
          (/\ futures[n].state = "none"
           /\ futures'[n].state # "none"
           /\ \A i \in 1..Len(workers) : ~workers[i].ready)
          => /\ futures'[n].state = "rejected"
             /\ futures'[n].error = "No workers available"
             /\ UNCHANGED <<pendingRequests, timers, inbox,
                            poolExecutionCount>>]_vars

\* A call was rejected for want of a ready unit while the units of the
\* initialized pool were still starting.
C11_Witness ==
    /\ poolPhase = "initialized"
    /\ Len(workers) = NumUnits
    /\ \A i \in 1..Len(workers) : ~workers[i].ready
    /\ \E n \in RequestNos : /\ futures[n].state = "rejected"
                              /\ futures[n].error = "No workers available"
    /\ pendingRequests = EmptyMap /\ timers = {} /\ poolExecutionCount = 0

\* C12: a unit that raised a fatal fault is not ready for the dispatcher
\* from then on, and pyodideLoaded() is false.
C12_FaultedNeverReady ==
    \A u \in UnitIds :
        alive[u] = "crashed" =>
            /\ ~pyodideLoaded
            /\ \A i \in 1..Len(workers) :
                   workers[i].workerId = u => ~workers[i].ready

\* The execute calls that were accepted for dispatch.
Accepted ==
    {n \in RequestNos : /\ futures[n].state # "none"
                        /\ futures[n].cause # "noworkers"}

\* C13, state part: the pool's execution count is the number of execute
\* calls accepted for dispatch, whatever became of them.
C13_CountIsAccepted == poolExecutionCount = Cardinality(Accepted)

\* C13, step part: the count changes only in the step that sends an execute
\* message to a unit, and then by one.
C13_OnlyAtDispatch ==
    poolExecutionCount' # poolExecutionCount =>
        /\ poolExecutionCount' = poolExecutionCount + 1
        /\ numCalls' = numCalls + 1
        /\ \E u \in UnitIds :
              /\ Len(inbox'[u]) = Len(inbox[u]) + 1
              /\ inbox'[u][Len(inbox'[u])].type = "execute"
              /\ inbox'[u][Len(inbox'[u])].call = numCalls

\* C13: the execution count is incremented exactly once per accepted
\* execute call, at dispatch; responses, timeouts, dropped late responses
\* and terminate() leave it alone.
C13_CountedAtDispatch ==
    []C13_CountIsAccepted /\ [][C13_OnlyAtDispatch]_vars

\* Every one of MaxRequests concurrently accepted requests was answered,
\* and the count stands at MaxRequests.
C13_Witness ==
    /\ poolExecutionCount = MaxRequests
    /\ \A n \in RequestNos : futures[n].cause = "response"
    /\ \E i, j \in 1..Len(history) :
          i < j /\ history[i].call > history[j].call

\* C20: initialize() has resolved only when every unit reported ready, and
\* pyodideLoaded() is then true while the pool is in service; it does not
\* stay pending once a unit has raised a fatal fault.
C20_InitializeSettles ==
    /\ InitPromise = "resolved" =>
          /\ \A u \in UnitIds : createPromise[u] = "resolved"
          /\ poolPhase = "initialized" => pyodideLoaded
    /\ InitPromise = "pending" =>
          \A u \in UnitIds : alive[u] # "crashed"

\* The value the claim prescribes for the k-th request.
PrescribedReset(k) ==
    IF serverConfig.workerCount > 1 THEN TRUE
    ELSE IF http[k].body.reset_globals.kind # "undefined"
    THEN http[k].body.reset_globals.bool
    ELSE serverConfig.resetGlobals

\* C16: the resetNamespace value that reaches execute, in the execute
\* message and in the invocation, is true whenever the server runs more
\* than one unit, and otherwise the request's reset_globals if present,
\* else the server default.
C16_ResetPassed ==
    \A k \in 1..Len(http) :
        http[k].valid =>
            /\ calls[http[k].call].pc # "idle" =>
                   calls[http[k].call].resetGlobals = PrescribedReset(k)
            /\ \A u \in UnitIds : \A i \in 1..Len(inbox[u]) :
                   inbox[u][i].call = http[k].call =>
                       inbox[u][i].resetGlobals = PrescribedReset(k)

\* With two units a request that asked for reset_globals false was run
\* with a fresh namespace.
C16_Witness ==
    /\ serverConfig.workerCount = 2
    /\ ~serverConfig.resetGlobals
    /\ \E k \in 1..Len(http) :
          /\ http[k].valid
          /\ http[k].body.reset_globals = JsBoolean(FALSE)
          /\ calls[http[k].call].pc = "returned"
          /\ calls[http[k].call].resetGlobals

\* The code field of the k-th request is missing, empty or not a string.
BadCode(k) ==
    \/ http[k].body.code.kind # "string"
    \/ http[k].body.code.src = EmptySource

\* C17, state part: a request without usable code is answered 400; one
\* whose execute call returned is answered 200 with the envelope, status
\* "exception" included; one whose execute call threw is answered 500 with
\* status "error".
C17_Statuses ==
    \A k \in 1..Len(http) :
        LET c == http[k].call
            returned == IF HasWorkerPool THEN futures[c].state = "resolved"
                        ELSE calls[c].pc = "returned"
            threw == IF HasWorkerPool THEN futures[c].state = "rejected"
                     ELSE calls[c].pc = "thrown"
        IN IF BadCode(k)
           THEN /\ Response(k).status = 400
                /\ Response(k).body.status = "error"
                /\ c = -1
           ELSE /\ c \in CallIds
                /\ returned =>
                       /\ Response(k).status = 200
                       /\ Response(k).body.status \in {"success", "exception"}
                       /\ calls[c].pc = "returned"
                       /\ Response(k).body = Envelope(calls[c])
                /\ threw =>
                       /\ Response(k).status = 500
                       /\ Response(k).body.status = "error"
                /\ (~returned /\ ~threw) => Response(k) = NoResponse

\* C17, step part: handling a request without usable code starts nothing.
C17_NoExecution ==
    (Len(http') > Len(http) /\ ~ValidCode(http'[Len(http')].body)) =>
        UNCHANGED <<mgrVars, numCalls, unitVars, poolVars>>

\* C17: 200 for every returned envelope, 400 without any execution for a
\* missing, empty or non-string code, 500 for a failure thrown by execute.
C17_HttpStatus == []C17_Statuses /\ [][C17_NoExecution]_vars

\* A request with empty code was answered 400 and one whose program failed
\* was answered 200 with status "exception".
C17_Witness ==
    /\ Len(http) = 2
    /\ http[1].body.code = JsString(EmptySource)
    /\ Response(1).status = 400
    /\ Response(2).status = 200
    /\ Response(2).body.status = "exception"

\* The positions in what worker u has posted of its responses to init.
InitReplies(u) ==
    {i \in 1..Len(toMain[u]) :
        \/ toMain[u][i].type = "ready"
        \/ toMain[u][i].type = "error" /\ toMain[u][i].id = NoId}

\* C18, state part: a worker has posted no response to init while handleInit
\* has not ended and exactly one once it has: ready with the worker's id
\* when initialization succeeded, an error without id when it failed.
C18_OneReply ==
    \A u \in UnitIds :
        /\ Cardinality(InitReplies(u)) =
               IF initPc[u] \in {"done", "failed"} THEN 1 ELSE 0
        /\ \A i \in InitReplies(u) :
               IF toMain[u][i].type = "ready"
               THEN initPc[u] = "done" /\ toMain[u][i].workerId = workerId[u]
               ELSE initPc[u] = "failed"

\* C18, step part: the worker's id is the one given in the init message it
\* took and never changes otherwise, and an ended handleInit stays ended.
C18_IdKept ==
    \A u \in UnitIds :
        LET takesInit == /\ inbox[u] # <<>>
                         /\ Head(inbox[u]).type = "init"
                         /\ inbox'[u] = Tail(inbox[u])
        IN /\ takesInit => workerId'[u] = Head(inbox[u]).workerId
           /\ workerId'[u] # workerId[u] => takesInit
           /\ initPc[u] \in {"done", "failed"} => initPc'[u] = initPc[u]

\* C18: in response to init a worker posts exactly one message, ready
\* carrying the id of the init message or an error without id, never both
\* and, once handleInit has ended, never neither.
C18_InitAnsweredOnce == []C18_OneReply /\ [][C18_IdKept]_vars

\* The worker was given id 1, answered an early execute message with an
\* error and then reported ready with id 1.
C18_Witness ==
    /\ Len(toMain[0]) >= 2
    /\ toMain[0][1].type = "error" /\ toMain[0][1].id # NoId
    /\ \E i \in InitReplies(0) :
          toMain[0][i].type = "ready" /\ toMain[0][i].workerId = 1

\* The execute message of the n-th request has been taken by the worker.
Handled(n) ==
    /\ n < numCalls
    /\ \A i \in 1..Len(inbox[0]) : inbox[0][i].call # n

\* The positions in what the worker has posted of the responses with the id
\* of the n-th request.
RepliesTo(n) ==
    {i \in 1..Len(toMain[0]) : toMain[0][i].id = RequestId(n)}

\* C19: a worker posts nothing with the id of an execute message before it
\* took the message or while the invocation has not ended, and exactly one
\* response once it has: a result with the envelope when execute returned
\* (status "exception" included), an error when the call threw or the
\* manager did not exist yet.
C19_ExecuteAnsweredOnce ==
    \A n \in CallIds :
        /\ Cardinality(RepliesTo(n)) <= 1
        /\ ~Handled(n) => RepliesTo(n) = {}
        /\ Handled(n) =>
              CASE calls[n].pc = "returned" ->
                     \E i \in RepliesTo(n) :
                         /\ toMain[0][i].type = "result"
                         /\ toMain[0][i].result = Envelope(calls[n])
                         /\ (calls[n].raised # "") =
                                (toMain[0][i].result.status = "exception")
                [] calls[n].pc = "thrown" ->
                     \E i \in RepliesTo(n) :
                         /\ toMain[0][i].type = "error"
                         /\ toMain[0][i].error = calls[n].error
                [] calls[n].pc = "idle" ->
                     \E i \in RepliesTo(n) :
                         /\ toMain[0][i].type = "error"
                         /\ toMain[0][i].error = "PyodideManager not initialized"
                [] OTHER -> RepliesTo(n) = {}

\* One request was answered with an "exception" result, one with the error
\* of a result that could not be converted, one with the error of a handle
\* that was not set yet.
C19_Witness ==
    \E a, b, c \in CallIds :
        /\ \E i \in RepliesTo(a) : /\ toMain[0][i].type = "result"
                                    /\ toMain[0][i].result.status = "exception"
        /\ \E i \in RepliesTo(b) : /\ toMain[0][i].type = "error"
                                    /\ toMain[0][i].error = "PythonError"
        /\ \E i \in RepliesTo(c) : /\ toMain[0][i].type = "error"
                                    /\ toMain[0][i].error = "Pyodide not initialized"

\* ------------------------------------------------------- claims C21 - C30
\* The execute calls made so far.
Called == {n \in RequestNos : futures[n].state # "none"}

\* C21, state part: no two execute calls were given the same id, whatever
\* became of them, and a future settled by a response was settled by the
\* response to its own request.
C21_IdsDistinct ==
    /\ \A m, n \in Called : m # n => futures[m].id # futures[n].id
    /\ \A k \in DOMAIN pendingRequests :
          futures[pendingRequests[k].call].id = k
    /\ \A n \in Called :
          futures[n].cause = "response" =>
              futures[n].byCall = n /\ futures[n].byId = futures[n].id

\* C21, step part: the counter never goes down, every execute call moves
\* it up by one, and the key a call registers was not in the table.
C21_CounterGrows ==
    /\ nextRequestId' >= nextRequestId
    /\ numCalls' # numCalls => nextRequestId' = nextRequestId + 1
    /\ \A k \in DOMAIN pendingRequests' :
          k \notin DOMAIN pendingRequests =>
              /\ k = RequestId(nextRequestId)
              /\ \A n \in Called : futures[n].id # k

\* C21: request ids come from a strictly increasing counter that is never
\* reset or reused, across timeouts, rejected calls and terminate(); a new
\* pending entry never overwrites one and a late response never matches a
\* newer request.
C21_IdsNeverReused == []C21_IdsDistinct /\ [][C21_CounterGrows]_vars

\* A call rejected for want of a ready unit took id req-0; the next call,
\* dispatched, was registered under req-1.
C21_Witness ==
    /\ futures[0].cause = "noworkers"
    /\ futures[0].id = RequestId(0)
    /\ futures[1].state = "pending"
    /\ DOMAIN pendingRequests = {RequestId(1)}

\* C22, state part, as amended: a returned envelope has status "success" or
\* "exception"; a thrown failure is the absent handle, the namespace that
\* could not be created or the result that could not be converted, and in
\* none of them did the runtime invocation of the program fail.
C22_Outcomes ==
    \A c \in CallIds :
        /\ calls[c].pc = "returned" =>
               Envelope(calls[c]).status \in {"success", "exception"}
        /\ calls[c].pc = "thrown" =>
               /\ calls[c].error \in {"Pyodide not initialized",
                                       "ConversionError", "PythonError"}
               /\ calls[c].raised = ""

\* C22, step part: an invocation that gets past the lock while the handle
\* is absent throws "Pyodide not initialized", and only such a one does.
C22_AbsentHandleThrows ==
    \A c \in CallIds :
        (calls[c].pc \in {"idle", "waiting"} /\
         calls'[c].pc \in {"running", "thrown"}) =>
            (~pyodide[calls'[c].unit]) =
                (calls'[c].pc = "thrown" /\
                 calls'[c].error = "Pyodide not initialized")

NamespaceFault(c) == calls[c].error = "ConversionError"

\* C23: used sequentially and without timeouts, a pool of one unit answers
\* every request as the manager used directly does: the same envelope
\* (status and result), or a failure with the same message, resetGlobals =
\* false requests seeing the bindings of the earlier ones on both sides
\* (requests on which only one side met a fault creating the namespace are
\* not compared).
C23_PoolOfOneIsTheManager ==
    \A n \in 0..(MaxRequests - 1) :
        (/\ n < numCalls
         /\ Awaited(n)
         /\ NamespaceFault(n) = NamespaceFault(MirrorCall(n))) =>
            LET d == calls[MirrorCall(n)]
                f == futures[n]
            IN /\ (d.pc = "returned") = (f.state = "resolved")
               /\ d.pc = "returned" => f.result = Envelope(d)
               /\ d.pc = "thrown" => f.error = d.error

\* x = 42 and then x, both without reset: "42" from the pool and from the
\* manager.
C23_Witness ==
    /\ numCalls = 2 /\ Awaited(0) /\ Awaited(1)
    /\ calls[MirrorCall(0)].code = Assign(42)
    /\ ~calls[MirrorCall(0)].resetGlobals
    /\ calls[MirrorCall(1)].code = Read
    /\ ~calls[MirrorCall(1)].resetGlobals
    /\ futures[1].state = "resolved"
    /\ futures[1].result = [status |-> "success", result |-> JsStr(<<"4", "2">>)]
    /\ Envelope(calls[MirrorCall(1)]) = futures[1].result


\* The earlier resetGlobals=false assignments returned by the unit that
\* returned the i-th envelope.
AssignsOnUnit(i) ==
    {j \in PersistentAssigns(i) :
        calls[history[j].call].unit = calls[history[i].call].unit}

\* C24 (environment): a resetGlobals=false read sees a binding exactly when
\* an earlier resetGlobals=false request bound x on the same unit; what ran
\* on another unit never shows.
C24_ReadsOwnUnit ==
    \A i \in 1..Len(history) :
        (history[i].code = Read /\ ~history[i].resetGlobals) =>
            IF AssignsOnUnit(i) # {}
            THEN history[i].result = JsStr(<<"4", "2">>)
            ELSE history[i].raised = "NameError"

\* C24 (frame): the environment, busy flag and execution counter of a unit
\* change only in a step of an execution on that unit.
C24_ChangesOwnUnit ==
    \A v \in DOMAIN globals :
        (\/ globals'[v] # globals[v]
         \/ sys_last_exc'[v] # sys_last_exc[v]
         \/ executionLock'[v] # executionLock[v]
         \/ executionCount'[v] # executionCount[v]) =>
            \E c \in CallIds :
                /\ calls'[c] # calls[c]
                /\ calls'[c].unit = v
                /\ \A d \in CallIds \ {c} : calls'[d] = calls[d]

\* C24 (no delay): an execution starts polling only when the busy flag of
\* its own unit is set, whatever the other units are doing.
C24_WaitsForOwnUnit ==
    \A c \in CallIds :
        (calls[c].pc = "idle" /\ calls'[c].pc = "waiting") =>
            executionLock[calls'[c].unit]

\* C24: the units are independent of one another.
C24_UnitsIndependent ==
    /\ []C24_ReadsOwnUnit
    /\ [][C24_ChangesOwnUnit /\ C24_WaitsForOwnUnit]_vars

\* x was bound on one unit without reset; a read without reset on the other
\* unit fails with NameError while the first unit is busy or not.
C24_Witness ==
    /\ Len(history) = 2
    /\ history[1].code = Assign(42) /\ ~history[1].resetGlobals
    /\ history[2].code = Read /\ ~history[2].resetGlobals
    /\ calls[history[1].call].unit # calls[history[2].call].unit
    /\ history[2].raised = "NameError"
    /\ globals[calls[history[1].call].unit] # globals[calls[history[2].call].unit]

\* C25: execute posts an execute message only to a unit whose entry in
\* workers has its ready flag set when the message is posted.
C25_DispatchedToReady ==
    \A u \in UnitIds :
        (/\ Len(inbox'[u]) > Len(inbox[u])
         /\ inbox'[u][Len(inbox'[u])].type = "execute") =>
            \E i \in 1..Len(workers) :
                workers[i].workerId = u /\ workers[i].ready

C25_OnlyToReady == [][C25_DispatchedToReady]_vars

\* A request was dispatched to a unit that is running another request,
\* although a ready unit with a free busy flag exists.
C25_Witness ==
    \E u \in UnitIds, c \in CallIds :
        /\ calls[c].pc = "running" /\ calls[c].unit = u
        /\ inbox[u] # <<>> /\ Head(inbox[u]).type = "execute"
        /\ \E i \in 1..Len(workers) :
               /\ workers[i].ready
               /\ workers[i].workerId # u
               /\ ~executionLock[workers[i].workerId]

\* C26: the ready flag of a unit is false when its entry is created, and
\* the only change it ever undergoes is from false to true, in the step in
\* which the pool takes a ready message of that unit carrying its worker id.
C26_ReadyStep ==
    /\ \A i \in 1..Len(workers') :
           i > Len(workers) => ~workers'[i].ready
    /\ \A i \in 1..Len(workers) :
           i <= Len(workers') =>
               /\ workers'[i].workerId = workers[i].workerId
               /\ workers[i].ready => workers'[i].ready
               /\ (~workers[i].ready /\ workers'[i].ready) =>
                      LET u == workers[i].workerId
                      IN /\ toMain[u] # <<>>
                         /\ Head(toMain[u]).type = "ready"
                         /\ Head(toMain[u]).workerId = u
                         /\ toMain'[u] = Tail(toMain[u])

C26_ReadyOnlyRises == [][C26_ReadyStep]_vars

\* One unit has become ready and then crashed, keeping its flag; the other
\* failed to initialize and its error message has been taken without
\* setting its flag.
C26_Witness ==
    \E i, j \in 1..Len(workers) :
        /\ workers[i].ready /\ alive[workers[i].workerId] = "crashed"
        /\ ~workers[j].ready
        /\ initPc[workers[j].workerId] = "failed"
        /\ toMain[workers[j].workerId] = <<>>

\* The unit takes the execute message at the head of its inbox in this step.
TakesExecute ==
    /\ alive[0] = "alive"
    /\ inbox[0] # <<>>
    /\ Head(inbox[0]).type = "execute"
    /\ inbox'[0] = Tail(inbox[0])

\* This step posts exactly one message, an error carrying the id of the
\* execute message taken, and leaves the busy flag free.
RejectsExecute ==
    /\ Len(toMain'[0]) = Len(toMain[0]) + 1
    /\ SubSeq(toMain'[0], 1, Len(toMain[0])) = toMain[0]
    /\ toMain'[0][Len(toMain'[0])].type = "error"
    /\ toMain'[0][Len(toMain'[0])].id = Head(inbox[0]).id
    /\ toMain'[0][Len(toMain'[0])].error \in
           {"PyodideManager not initialized", "Pyodide not initialized"}
    /\ ~executionLock'[0]

\* C27: an execute message taken before the unit's init message, or before
\* initialize() has set the runtime handle, is answered at once with one
\* error carrying its id and leaves the busy flag free; taken once the
\* handle is set (the packages may still be loading) it is executed like
\* any other. In no case does it disturb the initialization, which goes on
\* to post ready.
C27_EarlyExecuteStep ==
    TakesExecute =>
        /\ initPc' = initPc /\ alive' = alive
        /\ pyodideManager' = pyodideManager /\ pyodide' = pyodide
        /\ IF initPc[0] \in {"idle", "initializing"}
           THEN RejectsExecute
           ELSE initPc[0] = "loaded" =>
                    LET c == Head(inbox[0]).call
                    IN /\ calls'[c].pc \in {"running", "waiting", "thrown"}
                       /\ calls'[c].pc = "thrown" =>
                              calls'[c].error = "ConversionError"
                       /\ calls'[c].pc = "waiting" => executionLock[0]

C27_EarlyExecuteTolerated == [][C27_EarlyExecuteStep]_vars

\* C27 as stated: every execute message taken before the initialization is
\* complete is answered with an error.
C27_EarlyExecuteRejectedStep ==
    (TakesExecute /\ initPc[0] \in {"idle", "initializing", "loaded"}) =>
        RejectsExecute

C27_EarlyExecuteRejected == [][C27_EarlyExecuteRejectedStep]_vars

\* req-0 came before the runtime handle was set and was rejected; the unit
\* then reported ready and answered req-1 with a result.
C27_Witness ==
    \E i, j, k \in 1..Len(toMain[0]) :
        /\ i < j /\ j < k
        /\ toMain[0][i].type = "error" /\ toMain[0][i].id = RequestId(0)
        /\ toMain[0][j].type = "ready"
        /\ toMain[0][k].type = "result" /\ toMain[0][k].id = RequestId(1)
        /\ ~executionLock[0]

\* Request n was given up by its timer while its execution is under way.
Abandoned(n) ==
    /\ futures[n].state = "rejected" /\ futures[n].cause = "timeout"
    /\ calls[n].pc = "running"

\* C28 (frame): the step in which a timer rejects a request posts nothing
\* to any unit and changes nothing of any unit or of its manager.
C28_TimeoutStep ==
    (\E n \in DOMAIN futures :
        /\ futures[n].state = "pending"
        /\ futures'[n].state = "rejected" /\ futures'[n].cause = "timeout") =>
            UNCHANGED <<unitVars, mgrVars>>

\* C28 (busy flag): an abandoned execution holds the busy flag of its unit,
\* and no other request routed to that unit runs meanwhile.
C28_AbandonedHoldsLock ==
    \A n \in DOMAIN futures :
        Abandoned(n) =>
            /\ executionLock[calls[n].unit]
            /\ \A c \in CallIds \ {n} :
                   calls[c].unit = calls[n].unit => calls[c].pc # "running"

\* C28: a timeout only detaches the caller.
C28_TimeoutOnlyDetaches ==
    []C28_AbandonedHoldsLock /\ [][C28_TimeoutStep]_vars

\* Request 0 timed out while running; request 1, routed to the same unit,
\* is waiting for the busy flag.
C28_Witness ==
    /\ Abandoned(0)
    /\ calls[1].pc = "waiting" /\ calls[1].unit = calls[0].unit
    /\ executionLock[calls[0].unit]

\* C29 (step): whichever way an invocation leaves execute - returning an
\* envelope, or throwing because the handle is absent, the namespace could
\* not be created or the result could not be converted - the busy flag of
\* its manager is false when it has left.
C29_ExitStep ==
    \A c \in CallIds :
        (/\ calls[c].pc \notin {"returned", "thrown"}
         /\ calls'[c].pc \in {"returned", "thrown"}) =>
            ~executionLock'[calls'[c].unit]

\* C29 (state): the busy flag is false whenever no invocation is between
\* acquiring and releasing it, so the next caller can always enter.
C29_FreeWhenEmpty ==
    \A u \in DOMAIN executionLock :
        (\A c \in CallIds : calls[c].unit = u => calls[c].pc # "running") =>
            ~LockHeld(u)

C29_LockAlwaysReleased == []C29_FreeWhenEmpty /\ [][C29_ExitStep]_vars

\* One invocation threw on the absent handle, one on a fault creating the
\* namespace, one returned a code-level exception, and the flag is free.
C29_Witness ==
    \E a, b, c \in CallIds :
        /\ calls[a].pc = "thrown"
        /\ calls[a].error = "Pyodide not initialized"
        /\ calls[b].pc = "thrown" /\ calls[b].error = "ConversionError"
        /\ calls[c].pc = "returned" /\ calls[c].raised # ""
        /\ ~executionLock[0]

\* C30: the spin-wait keeps no order among the callers. Whenever the busy
\* flag is free while callers are polling, any one of them may be the next
\* to acquire it, whichever called first, and a caller that arrives at that
\* moment may acquire it ahead of them all, leaving them polling; as this
\* holds after every release, a waiter can be overtaken for as long as new
\* callers keep arriving.
C30_NoOrderAmongCallers ==
    \A a \in CallIds :
        (calls[a].pc = "waiting" /\ ~LockHeld(calls[a].unit)) =>
            /\ ENABLED (DirectPoll(a) /\ calls'[a].pc = "running")
            /\ numCalls < MaxCalls =>
                   ENABLED (/\ DirectExecute(Read, FALSE)
                            /\ calls'[numCalls].pc = "running"
                            /\ calls'[a].pc = "waiting")

\* An invocation that called execute after a waiting one has acquired the
\* flag, run and returned, and the earlier one is still polling.
C30_Witness ==
    \E a, b \in CallIds :
        /\ a < b
        /\ calls[a].pc = "waiting"
        /\ calls[b].pc = "returned"
        /\ ~LockHeld(0)

\* ------------------------------------------------------ claims C31 - C40
\* C31 (step): the execution_time_ms of a returned envelope is the time
\* from the acquisition of the busy flag to the return, never negative.
C31_TimedFromAcquisition ==
    \A c \in CallIds :
        (calls[c].pc = "running" /\ calls'[c].pc = "returned") =>
            /\ calls'[c].execution_time_ms = now - calls[c].lockedAt
            /\ calls'[c].execution_time_ms >= 0

\* C31 (state): the time an invocation spent polling is no part of it.
C31_WaitExcluded ==
    \A c \in CallIds :
        calls[c].pc = "returned" =>
            calls[c].execution_time_ms + (calls[c].lockedAt - calls[c].calledAt)
                <= now - calls[c].calledAt

C31_ExecutionTime == []C31_WaitExcluded /\ [][C31_TimedFromAcquisition]_vars

\* An invocation polled for a tick, then ran for a tick: it reports 1.
C31_Witness ==
    \E c \in CallIds :
        /\ calls[c].pc = "returned"
        /\ calls[c].lockedAt = calls[c].calledAt + 1
        /\ calls[c].execution_time_ms = 1
        /\ now = calls[c].calledAt + 2

\* C32: the worker count fixes the path of every /python request. With
\* count 0 the pool is never initialized and each valid request is one
\* direct invocation of the server's manager; with a count above 0 each
\* valid request is one call of WorkerPool.execute, and the only
\* invocations are those the workers start for execute messages.
C32_OnePath ==
    /\ \A k \in 1..Len(http) :
           http[k].valid =>
               IF serverConfig.workerCount = 0
               THEN /\ futures[http[k].call].state = "none"
                    /\ calls[http[k].call].pc # "idle"
                    /\ calls[http[k].call].id = NoId
               ELSE /\ futures[http[k].call].state # "none"
                    /\ calls[http[k].call].pc # "idle" =>
                           calls[http[k].call].id = futures[http[k].call].id
    /\ serverConfig.workerCount = 0 =>
           /\ poolPhase = "constructed" /\ workers = <<>>
           /\ pendingRequests = EmptyMap /\ nextRequestId = 0
    /\ serverConfig.workerCount > 0 =>
           \A c \in CallIds : calls[c].pc # "idle" => calls[c].id # NoId

\* A server with one worker has answered a request through the pool.
C32_Witness ==
    /\ serverConfig.workerCount = 1
    /\ Len(http) >= 1 /\ http[1].valid
    /\ futures[http[1].call].state = "resolved"
    /\ calls[http[1].call].pc = "returned"
    /\ calls[http[1].call].id = RequestId(0)

\* C33 (state): /health reports execution_count 0 as long as no valid
\* /python request has been taken.
C33_ZeroAtFirst ==
    (\A k \in 1..Len(http) : ~http[k].valid) => HealthExecutionCount = 0

\* C33 (step): no step lowers the reported execution_count, and a /python
\* request answered with 400 or a /health request leaves it as it was.
C33_CountStep ==
    /\ HealthExecutionCount' >= HealthExecutionCount
    /\ (Len(http') > Len(http) /\ ~http'[Len(http')].valid) =>
           HealthExecutionCount' = HealthExecutionCount
    /\ handleHealth => HealthExecutionCount' = HealthExecutionCount

C33_HealthCount == []C33_ZeroAtFirst /\ [][C33_CountStep]_vars

\* One request was executed and one was rejected with 400: the count is 1.
C33_Witness ==
    /\ Len(http) = 2
    /\ http[1].valid /\ ~http[2].valid
    /\ Response(1).status = 200 /\ Response(2).status = 400
    /\ HealthExecutionCount = 1

\* C34: the delay of every armed timer is the configured timeout, whatever
\* number of milliseconds was configured, and 30000 when none was.
C34_DelayIsConfigured ==
    \A t \in timers :
        t.delay = IF poolTimeout.kind = "number" THEN poolTimeout.num
                  ELSE DefaultTimeout

\* C35: an invocation with resetGlobals = true that returns, with status
\* success or exception, leaves the names bound in the persistent namespace
\* of its manager exactly as they were.
C35_ResetStep ==
    \A c \in CallIds :
        (/\ calls[c].pc = "running" /\ calls'[c].pc = "returned"
         /\ calls[c].resetGlobals) =>
            DOMAIN globals'[calls[c].unit] = DOMAIN globals[calls[c].unit]

C35_ResetLeavesGlobals == [][C35_ResetStep]_vars

\* C36: the armed timers and the entries of pendingRequests correspond one
\* to one - every entry has exactly one armed timer, which is its own, and
\* every armed timer belongs to an entry - and when every request issued so
\* far has been settled the table is empty.
C36_TimersMatchPending ==
    /\ \A k \in DOMAIN pendingRequests :
           /\ Cardinality({t \in timers : t.key = k}) = 1
           /\ \A t \in timers :
                  t.key = k => t.call = pendingRequests[k].call
    /\ \A t \in timers : t.key \in DOMAIN pendingRequests
    /\ (\A n \in 0..(numCalls - 1) :
            futures[n].state \in {"resolved", "rejected"}) =>
           pendingRequests = EmptyMap /\ timers = {}

\* Two requests were registered; the response to one has disarmed its timer
\* and removed its entry, the other is still pending with its timer armed.
C36_Witness ==
    \E m, n \in DOMAIN futures :
        /\ futures[m].state = "resolved" /\ futures[m].cause = "response"
        /\ futures[n].state = "pending"
        /\ DOMAIN pendingRequests = {futures[n].id}
        /\ Cardinality(timers) = 1

\* C37 (state): once terminate() has been called the pool has no workers,
\* an empty pending table, no armed timer, and pyodideLoaded() is false.
C37_Terminated ==
    poolPhase = "terminated" =>
        /\ workers = <<>>
        /\ pendingRequests = EmptyMap
        /\ timers = {}
        /\ ~pyodideLoaded

\* C37 (step): from then on the pool stays terminated, no message is posted
\* to any unit, every execute call is rejected at once with "No workers
\* available", and a further terminate() changes nothing.
C37_AfterTerminate ==
    poolPhase = "terminated" =>
        /\ poolPhase' = "terminated"
        /\ \A u \in UnitIds : Len(inbox'[u]) <= Len(inbox[u])
        /\ \A n \in DOMAIN futures :
               (futures[n].state = "none" /\ futures'[n].state # "none") =>
                   /\ futures'[n].state = "rejected"
                   /\ futures'[n].error = "No workers available"
        /\ terminate => UNCHANGED vars

C38_InitializeNotStranded ==
    ~(/\ poolPhase = "terminated"
      /\ InitPromise = "pending"
      /\ \A u \in UnitIds : alive[u] # "alive" /\ toMain[u] = <<>>)

\* This step is the execute call of request n.
ExecuteCalled(n) == futures[n].state = "none" /\ futures'[n].state # "none"

\* This step posts an execute message to unit u.
PostsExecuteTo(u) ==
    /\ Len(inbox'[u]) = Len(inbox[u]) + 1
    /\ inbox'[u][Len(inbox'[u])].type = "execute"

\* C39: dispatch is gated unit by unit, not on the readiness of the whole
\* pool: an execute call is dispatched whenever at least one unit has its
\* ready flag set - to one such unit, also while other units are not ready
\* or after initialize() has rejected - and is rejected with "No workers
\* available" only when no unit is ready.
C39_DispatchStep ==
    \A n \in DOMAIN futures :
        ExecuteCalled(n) =>
            IF \E i \in 1..Len(workers) : workers[i].ready
            THEN /\ futures'[n].state = "pending"
                 /\ \E i \in 1..Len(workers) :
                        workers[i].ready /\ PostsExecuteTo(workers[i].workerId)
            ELSE /\ futures'[n].state = "rejected"
                 /\ futures'[n].error = "No workers available"
                 /\ inbox' = inbox

C39_GatedPerUnit == [][C39_DispatchStep]_vars

\* C39 as stated: a request is posted to a unit only when pyodideLoaded()
\* is true.
C39_LoadedStep ==
    (\E u \in UnitIds : PostsExecuteTo(u)) => pyodideLoaded

C39_GatedOnLoaded == [][C39_LoadedStep]_vars

\* initialize() has rejected because one unit failed to initialize; the
\* unit that did become ready has nevertheless answered a request.
C39_Witness ==
    /\ poolPhase = "initialized"
    /\ InitPromise = "rejected"
    /\ ~pyodideLoaded
    /\ \E u \in UnitIds : initPc[u] = "failed"
    /\ \E n \in DOMAIN futures :
           futures[n].state = "resolved" /\ futures[n].cause = "response"

\* C40: with finitely many execute calls and runtime invocations that all
\* settle, every caller that has to poll eventually acquires the flag and
\* leaves execute (returning an envelope, or throwing when a step around
\* the invocation faults), and the flag does not stay free for ever while
\* a caller is polling.
C40_NoCallerSpinsForever ==
    /\ \A c \in 0..(MaxCalls - 1) :
           (calls[c].pc \in {"waiting", "running"}) ~>
               (calls[c].pc \in {"returned", "thrown"})
    /\ (Waiting(0) # {} /\ ~executionLock[0]) ~> (Waiting(0) = {})

\* Every call has returned, and not in the order in which they were made.
C40_Witness ==
    /\ Len(history) = MaxCalls
    /\ \A c \in CallIds : calls[c].pc = "returned"
    /\ \E i, j \in 1..Len(history) :
           i < j /\ history[i].call > history[j].call
    /\ ~executionLock[0]

====
